---- MODULE Spec2Model ----
(***************************************************************************)
(* Model of the property-information route (src/src/routes/property.ts):   *)
(* the POST /info handler that drives a cascading form in a headless       *)
(* browser.  Strings are sequences of one-character strings, so that       *)
(* toUpperCase, toLowerCase, trim and includes are computed, not assumed.  *)
(***************************************************************************)
EXTENDS Naturals, Integers, Sequences, FiniteSets, TLC

\* ------------------------------------------------------------------------
\* JavaScript strings
\* ------------------------------------------------------------------------
Smalls ==
  <<"a","b","c","d","e","f","g","h","i","j","k","l","m",
    "n","o","p","q","r","s","t","u","v","w","x","y","z">>
Caps ==
  <<"A","B","C","D","E","F","G","H","I","J","K","L","M",
    "N","O","P","Q","R","S","T","U","V","W","X","Y","Z">>

UpperChar(c) ==
  IF \E i \in DOMAIN Smalls : Smalls[i] = c
  THEN Caps[CHOOSE i \in DOMAIN Smalls : Smalls[i] = c]
  ELSE c

LowerChar(c) ==
  IF \E i \in DOMAIN Caps : Caps[i] = c
  THEN Smalls[CHOOSE i \in DOMAIN Caps : Caps[i] = c]
  ELSE c

toUpperCase(s) == [i \in 1..Len(s) |-> UpperChar(s[i])]
toLowerCase(s) == [i \in 1..Len(s) |-> LowerChar(s[i])]

\* String.prototype.includes: t occurs in s as a contiguous substring
\* (the empty string occurs in every string).
includes(s, t) ==
  \E i \in 0..(Len(s) - Len(t)) : SubSeq(s, i + 1, i + Len(t)) = t

\* String.prototype.trim: strip leading and trailing white space.
trim(s) ==
  IF \A i \in 1..Len(s) : s[i] = " "
  THEN << >>
  ELSE LET first == CHOOSE i \in 1..Len(s) :
                      s[i] # " " /\ \A j \in 1..(i - 1) : s[j] = " "
           last  == CHOOSE i \in 1..Len(s) :
                      s[i] # " " /\ \A j \in (i + 1)..Len(s) : s[j] = " "
       IN  SubSeq(s, first, last)

\* ------------------------------------------------------------------------
\* JavaScript values: undefined / null, and Array.prototype.find
\* ------------------------------------------------------------------------
Null == [null |-> TRUE]
Undefined == [undefined |-> TRUE]

\* The least element of a set of indices, 0 when the set is empty
\* (the index Array.prototype.find stops at).
firstIndex(S) ==
  IF S = {} THEN 0 ELSE CHOOSE i \in S : \A j \in S : i <= j

\* Variant of firstNonEmptyValue that takes the first option whatever its
\* value (options[0]?.value || '').
firstValueOrEmpty(options) ==
  IF Len(options) = 0 THEN << >> ELSE options[1].value

\* The fallback of the three steps:
\*   options.find(opt => opt.value)?.value || ''
firstNonEmptyValue(options) ==
  LET i == firstIndex({k \in 1..Len(options) : options[k].value # << >>})
  IN  IF i = 0 THEN << >> ELSE options[i].value

\* Reading a select's options off the page:
\*   Array.from(select.options).map(opt => ({value: opt.value, text: opt.text.trim()}))
readOptions(domOptions) ==
  [i \in 1..Len(domOptions) |->
     [value |-> domOptions[i].value, text |-> trim(domOptions[i].text)]]

\* ------------------------------------------------------------------------
\* Role resolution (lines 76-101)
\* ------------------------------------------------------------------------
hasCityKeyword(select) ==
  LET idLower == toLowerCase(select.id)
      nameLower == toLowerCase(select.name)
  IN  \/ includes(idLower, <<"c","i","t","y">>)
      \/ includes(idLower, <<"t","o","w","n">>)
      \/ includes(nameLower, <<"c","i","t","y">>)
      \/ includes(nameLower, <<"t","o","w","n">>)

hasStreetKeyword(select) ==
  LET idLower == toLowerCase(select.id)
      nameLower == toLowerCase(select.name)
  IN  \/ includes(idLower, <<"s","t","r","e","e","t">>)
      \/ includes(nameLower, <<"s","t","r","e","e","t">>)

hasAddressKeyword(select) ==
  LET idLower == toLowerCase(select.id)
      nameLower == toLowerCase(select.name)
  IN  \/ includes(idLower, <<"a","d","d","r","e","s","s">>)
      \/ includes(idLower, <<"n","u","m","b","e","r">>)
      \/ includes(nameLower, <<"a","d","d","r","e","s","s">>)
      \/ includes(nameLower, <<"n","u","m","b","e","r">>)

NoRoles == [city |-> Null, street |-> Null, address |-> Null]

\* Variant of keywordStep without the "not yet assigned" tests: the last
\* matching control wins.
keywordStepLastWins(roles, select) ==
  IF hasCityKeyword(select)
  THEN [roles EXCEPT !.city = select]
  ELSE IF hasStreetKeyword(select)
  THEN [roles EXCEPT !.street = select]
  ELSE IF hasAddressKeyword(select)
  THEN [roles EXCEPT !.address = select]
  ELSE roles

\* One iteration of the loop over selects: the if / else-if chain.
keywordStep(roles, select) ==
  IF hasCityKeyword(select) /\ roles.city = Null
  THEN [roles EXCEPT !.city = select]
  ELSE IF hasStreetKeyword(select) /\ roles.street = Null
  THEN [roles EXCEPT !.street = select]
  ELSE IF hasAddressKeyword(select) /\ roles.address = Null
  THEN [roles EXCEPT !.address = select]
  ELSE roles

\* for (const select of selects) { ... }: the roles after the first n selects.
RECURSIVE keywordPass(_, _)
keywordPass(selects, n) ==
  IF n = 0 THEN NoRoles
  ELSE keywordStep(keywordPass(selects, n - 1), selects[n])

\* Fallback: assume order (city, street, address).
positionalFallback(roles, selects) ==
  [city    |-> IF roles.city = Null /\ Len(selects) >= 1
               THEN selects[1] ELSE roles.city,
   street  |-> IF roles.street = Null /\ Len(selects) >= 2
               THEN selects[2] ELSE roles.street,
   address |-> IF roles.address = Null /\ Len(selects) >= 3
               THEN selects[3] ELSE roles.address]

resolveRoles(selects) ==
  positionalFallback(keywordPass(selects, Len(selects)), selects)

\* if (!citySelect || !streetSelect || !addressSelect) throw ...
resolutionFails(roles) ==
  roles.city = Null \/ roles.street = Null \/ roles.address = Null

\* ------------------------------------------------------------------------
\* Option matching of the three steps (lines 103-122, 153-164, 195-205)
\* ------------------------------------------------------------------------
normalizedCity(city) == trim(toUpperCase(city))
normalizedStreet(streetName) == trim(toUpperCase(streetName))
normalizedAddress(addressNumber) == trim(addressNumber)

cityMatches(opt, target) ==
  \/ toUpperCase(opt.text) = target
  \/ toUpperCase(opt.value) = target
  \/ includes(toUpperCase(opt.text), target)
  \/ includes(target, toUpperCase(opt.text))

cityOption(options, target) ==
  LET i == firstIndex({k \in 1..Len(options) : cityMatches(options[k], target)})
  IN  IF i = 0 THEN Undefined ELSE options[i]

cityValue(options, target) ==
  IF cityOption(options, target) # Undefined
  THEN cityOption(options, target).value
  ELSE firstNonEmptyValue(options)

\* Variant of streetMatches with the four rules of the region step.
streetMatchesAsRegion(opt, target) ==
  \/ toUpperCase(opt.text) = target
  \/ toUpperCase(opt.value) = target
  \/ includes(toUpperCase(opt.text), target)
  \/ includes(target, toUpperCase(opt.text))

streetMatches(opt, target) ==
  \/ includes(toUpperCase(opt.text), target)
  \/ includes(toUpperCase(opt.value), target)
  \/ includes(target, toUpperCase(opt.text))

streetOption(options, target) ==
  LET i == firstIndex({k \in 1..Len(options) : streetMatches(options[k], target)})
  IN  IF i = 0 THEN Undefined ELSE options[i]

streetValue(options, target) ==
  IF streetOption(options, target) # Undefined
  THEN streetOption(options, target).value
  ELSE firstNonEmptyValue(options)

addressMatches(opt, target) ==
  \/ trim(opt.text) = target
  \/ trim(opt.value) = target

addressOption(options, target) ==
  LET i == firstIndex({k \in 1..Len(options) : addressMatches(options[k], target)})
  IN  IF i = 0 THEN Undefined ELSE options[i]

addressValue(options, target) ==
  IF addressOption(options, target) # Undefined
  THEN addressOption(options, target).value
  ELSE firstNonEmptyValue(options)

\* Variant of stepOutcome without the emptiness test.
stepOutcomeAlwaysSelect(value) == "select"

\* if (value) { await page.select(selector, value) } else { throw ... }
stepOutcome(value) == IF value # << >> THEN "select" ELSE "throw"

\* ------------------------------------------------------------------------
\* Bounds and input pools
\* ------------------------------------------------------------------------
\* The most select controls a page holds, and the most options a select holds.
MaxSelects == 3
MaxOptions == 3

\* A request-body field: absent, or a string.
Absent == [t |-> "undefined"]
Str(s) == [t |-> "string", s |-> s]
truthy(v) == v.t = "string" /\ v.s # << >>

BodyFields(strings) == {Absent, Str(<< >>)} \cup {Str(x) : x \in strings}

FlowBodies ==
  [city : BodyFields({<<"a","b">>}),
   streetName : BodyFields({<<"a","b">>}),
   addressNumber : BodyFields({<<" ","7">>})]

Opt(value, text) == [value |-> value, text |-> text]
Placeholder == Opt(<< >>, <<"-","-">>)

\* The select elements a page of the flow may hold (id, name, live options).
FlowControls ==
  { [id |-> <<"d","d","l","C","i","t","y">>, name |-> << >>,
     options |-> <<Placeholder, Opt(<<"1">>, <<"A","B">>)>>],
    [id |-> << >>, name |-> <<"S","t","r","e","e","t">>,
     options |-> <<Placeholder>>],
    [id |-> <<"n","u","m","b","e","r">>, name |-> <<"n","u","m","b","e","r">>,
     options |-> << >>],
    [id |-> <<"l","s","t">>, name |-> << >>,
     options |-> <<Opt(<<"2">>, <<"X","Y">>)>>] }

\* All sequences over S of length at most n.
SeqsUpTo(S, n) == UNION {[1..k -> S] : k \in 0..n}

FlowPages == SeqsUpTo(FlowControls, MaxSelects)

\* The option lists a dependent select may show when it is re-read.
FlowOptionLists ==
  { << >>,
    <<Placeholder>>,
    <<Placeholder, Opt(<<"7">>, <<" ","A","B","C"," ">>)>>,
    <<Opt(<<"9">>, <<"X","Y">>)>> }

\* page.$$eval('select', ...): the snapshot of the page's selects.
snapshot(dom) ==
  [i \in 1..Len(dom) |->
     [index |-> i - 1, id |-> dom[i].id, name |-> dom[i].name,
      options |-> readOptions(dom[i].options)]]

\* select.id ? `#${select.id}` : `select[name="${select.name}"]`
selectorOf(select) ==
  IF select.id # << >>
  THEN [by |-> "id", key |-> select.id]
  ELSE [by |-> "name", key |-> select.name]

\* delay(ms) of the flow
GraceDelay == 3000
SettleDelay == 1000
ResultsDelay == 3000

\* ------------------------------------------------------------------------
\* The handler of POST /info
\* ------------------------------------------------------------------------
VARIABLES
  pc,                    \* the handler's position (its next await)
  body,                  \* req.body
  browser,               \* "null", "open" or "closed"
  closeCalls,            \* how many times browser.close() was invoked
  closeRejected,         \* whether browser.close() rejected (swallowed)
  selects,               \* the snapshot taken by $$eval
  citySelect, streetSelect, addressSelect,
  chosen,                \* cityValue, streetValue, addressValue
  updatedStreetOptions, updatedAddressOptions,
  submitButton,          \* "unknown", "present" or "null"
  html,                  \* page.content(), NoPage before it is read
  res,                   \* the responses sent, in order
  log,                   \* the browser operations awaited, in order
  rSelects, rRoles, rPhase,             \* role resolution on its own
  mOptions, mTarget, mStep, mValue, mOutcome,  \* option matching on its own
  cReq, cBrowsers,       \* concurrent requests and the browsers they launched
  xPage, xInfo, xScanned, xStep, xPhase,  \* result extraction on its own
  qPc, qBody, qConfigured, qSends, qRes   \* the handler of POST /submit

hvars ==
  <<pc, body, browser, closeCalls, closeRejected, selects,
    citySelect, streetSelect, addressSelect, chosen,
    updatedStreetOptions, updatedAddressOptions, submitButton, html, res, log>>
rvars == <<rSelects, rRoles, rPhase>>
mvars == <<mOptions, mTarget, mStep, mValue, mOutcome>>
cvars == <<cReq, cBrowsers>>
xvars == <<xPage, xInfo, xScanned, xStep, xPhase>>
qvars == <<qPc, qBody, qConfigured, qSends, qRes>>
vars == <<hvars, rvars, mvars, cvars, xvars, qvars>>

\* The page content before page.content() was awaited.
NoPage == [unread |-> TRUE]

NoValues == [city |-> << >>, street |-> << >>, address |-> << >>]

\* The extractor on its own, not started: no page, no record.
NoInfo == [unset |-> TRUE]

ExtractorIdle ==
  /\ xPage = NoPage /\ xInfo = NoInfo /\ xScanned = NoInfo
  /\ xStep = 0 /\ xPhase = "off"

\* The quote handler, not started: no request, no send, no response.
NoSends == <<"none", "none">>
QuoteIdle ==
  /\ qPc = "off" /\ qBody = [unset |-> TRUE] /\ qConfigured = FALSE
  /\ qSends = NoSends /\ qRes = << >>

HandlerIdle(b) ==
  /\ pc = "validate"
  /\ body = b
  /\ browser = "null"
  /\ closeCalls = 0
  /\ closeRejected = FALSE
  /\ selects = << >>
  /\ citySelect = Null /\ streetSelect = Null /\ addressSelect = Null
  /\ chosen = NoValues
  /\ updatedStreetOptions = << >>
  /\ updatedAddressOptions = << >>
  /\ submitButton = "unknown"
  /\ html = NoPage
  /\ res = << >>
  /\ log = << >>

ResolverIdle == rSelects = << >> /\ rRoles = NoRoles /\ rPhase = "off"
MatcherIdle ==
  /\ mOptions = << >> /\ mTarget = << >> /\ mStep = "off"
  /\ mValue = << >> /\ mOutcome = "none"

\* The most requests handled at the same time.
MaxRequests == 2
Requests == 1..MaxRequests

\* A request's own variables: its position, its local `browser` and `page`
\* (0 for null, else the browser launched), and the status it answered.
IdleRequest(at) == [pc |-> at, browser |-> 0, page |-> 0, status |-> 0]

ConcurrentIdle ==
  /\ cReq = [r \in Requests |-> IdleRequest("off")]
  /\ cBrowsers = << >>

Init ==
  /\ \E b \in FlowBodies : HandlerIdle(b)
  /\ ResolverIdle
  /\ MatcherIdle
  /\ ConcurrentIdle
  /\ ExtractorIdle
  /\ QuoteIdle

\* ------------------------------------------------------------------------
\* Regular expressions of the extractor: a pattern is a sequence of items,
\* each a character class with a greedy repetition count.
\* ------------------------------------------------------------------------
Digit == {"0","1","2","3","4","5","6","7","8","9"}
Space == {" "}

Times(set, n) == [set |-> set, min |-> n, bounded |-> TRUE, max |-> n]
Plus(set) == [set |-> set, min |-> 1, bounded |-> FALSE, max |-> 0]
Star(set) == [set |-> set, min |-> 0, bounded |-> FALSE, max |-> 0]
Optional(set) == [set |-> set, min |-> 0, bounded |-> TRUE, max |-> 1]

\* A literal, and a literal under the /i flag.
Lit(s) == [i \in 1..Len(s) |-> Times({s[i]}, 1)]
LitI(s) == [i \in 1..Len(s) |-> Times({UpperChar(s[i]), LowerChar(s[i])}, 1)]

\* How many characters after offset pos belong to the item's class, up to
\* the item's maximum.
runLength(text, pos, item) ==
  LET limit == IF item.bounded /\ item.max < Len(text) - pos
               THEN item.max ELSE Len(text) - pos
  IN  CHOOSE n \in 0..limit :
        /\ \A i \in 1..n : text[pos + i] \in item.set
        /\ n = limit \/ text[pos + n + 1] \notin item.set

NoMatch == [ok |-> FALSE, start |-> 0, ends |-> << >>]

\* The run of item k at offset pos (0 past the end of the pattern).
runOf(text, pos, pattern, k) ==
  IF k > Len(pattern) THEN 0 ELSE runLength(text, pos, pattern[k])

\* Greedy, backtracking match of items k.. of the pattern at offset pos,
\* item k taking at most n characters: the offsets at which each item ends.
\* Item k takes the largest count (at least its minimum) for which the
\* rest of the pattern matches.
RECURSIVE matchFrom(_, _, _, _, _)
matchFrom(text, pos, pattern, k, n) ==
  IF k > Len(pattern) THEN [ok |-> TRUE, start |-> pos, ends |-> << >>]
  ELSE IF n < pattern[k].min THEN NoMatch
  ELSE LET rest == matchFrom(text, pos + n, pattern, k + 1,
                             runOf(text, pos + n, pattern, k + 1))
       IN  IF rest.ok
           THEN [ok |-> TRUE, start |-> pos, ends |-> <<pos + n>> \o rest.ends]
           ELSE matchFrom(text, pos, pattern, k, n - 1)

matchAt(text, pattern, p) ==
  matchFrom(text, p, pattern, 1, runOf(text, p, pattern, 1))

\* text.match(pattern): the leftmost match.
match(text, pattern) ==
  LET starts == {p \in 0..Len(text) : matchAt(text, pattern, p).ok}
  IN  IF starts = {} THEN NoMatch
      ELSE matchAt(text, pattern, CHOOSE p \in starts : \A q \in starts : p <= q)

\* match[0], and the capture group made of items from..to of the pattern.
matched(text, m) == SubSeq(text, m.start + 1, m.ends[Len(m.ends)])
group(text, m, from, to) ==
  SubSeq(text, (IF from = 1 THEN m.start ELSE m.ends[from - 1]) + 1, m.ends[to])

\* a.match(p) || b.match(p): the text the match is taken from.
matchSource(text, parentText, pattern) ==
  IF match(text, pattern).ok THEN text ELSE parentText

\* s.replace(literal, ''): removes the first occurrence.
removeFirst(s, literal) ==
  IF ~includes(s, literal) THEN s
  ELSE LET at == CHOOSE i \in 0..(Len(s) - Len(literal)) :
                   /\ SubSeq(s, i + 1, i + Len(literal)) = literal
                   /\ \A j \in 0..(i - 1) :
                        SubSeq(s, j + 1, j + Len(literal)) # literal
       IN  SubSeq(s, 1, at) \o SubSeq(s, at + Len(literal) + 1, Len(s))

\* ------------------------------------------------------------------------
\* Result extraction (lines 223-320)
\* ------------------------------------------------------------------------
\* A response page: one table, as rows of cell texts, and the text of the
\* body outside the table.  A field of the record that is not set is << >>.
OwnerLabel == <<"O","w","n","e","r",":">>
OwnerAddressLabel == <<"O","w","n","e","r"," ","A","d","d","r","e","s","s",":">>
BuildingValueLabel == <<"B","u","i","l","d","i","n","g"," ","V","a","l","u","e",":">>
BuildingValueWords == <<"B","u","i","l","d","i","n","g"," ","V","a","l","u","e">>
LandValueLabel == <<"L","a","n","d"," ","V","a","l","u","e",":">>
OtherValueLabel == <<"O","t","h","e","r"," ","V","a","l","u","e",":">>
TotalValueLabel == <<"T","o","t","a","l"," ","V","a","l","u","e",":">>
TotalValueWords == <<"T","o","t","a","l"," ","V","a","l","u","e">>
AssessmentLabel == <<"A","s","s","e","s","s","m","e","n","t"," ","d","a","t","a"," ","f","r","o","m">>
FiscalYear == <<"F","Y">>
LotSizeLabel == <<"L","o","t"," ","S","i","z","e",":">>
LotSizeWords == <<"L","o","t"," ","S","i","z","e">>
LastSalePriceLabel == <<"L","a","s","t"," ","S","a","l","e"," ","P","r","i","c","e",":">>
LastSaleDateLabel == <<"L","a","s","t"," ","S","a","l","e"," ","D","a","t","e",":">>
UseCodeLabel == <<"U","s","e"," ","C","o","d","e",":">>
YearBuiltLabel == <<"Y","e","a","r"," ","B","u","i","l","t",":">>
YearBuiltWords == <<"Y","e","a","r"," ","B","u","i","l","t">>
Acre == <<"A","c","r","e">>

\* /\$[\d,]+/
MoneyPattern == Lit(<<"$">>) \o <<Plus(Digit \cup {","})>>
\* /FY\s+\d{4}/ and /\d{4}/
FiscalYearPattern == Lit(FiscalYear) \o <<Plus(Space), Times(Digit, 4)>>
FourDigits == <<Times(Digit, 4)>>
\* /[\d.]+[\s]*Acres?/
AcresPattern ==
  <<Plus(Digit \cup {"."}), Star(Space)>> \o Lit(Acre) \o <<Optional({"s"})>>
\* /\d{8}/
EightDigits == <<Times(Digit, 8)>>
\* /Use Code:\s*(\d+)/
UseCodePattern == Lit(UseCodeLabel) \o <<Star(Space), Plus(Digit)>>
\* /Year Built:\s*(\d{4})/
YearBuiltPattern == Lit(YearBuiltLabel) \o <<Star(Space), Times(Digit, 4)>>
\* /Year Built[:\s]+(\d{4})/i
YearBuiltFallback ==
  LitI(YearBuiltWords) \o <<Plus(Space \cup {":"}), Times(Digit, 4)>>
\* /Total Value[:\s]+\$?([\d,]+)/i
TotalValueFallback ==
  LitI(TotalValueWords)
    \o <<Plus(Space \cup {":"}), Optional({"$"}), Plus(Digit \cup {","})>>
\* /Lot Size[:\s]+([\d.]+\s*Acres?)/i
LotSizeFallback ==
  LitI(LotSizeWords)
    \o <<Plus(Space \cup {":"}), Plus(Digit \cup {"."}), Star(Space)>>
    \o LitI(Acre) \o <<Optional({"s", "S"})>>

EmptyInfo ==
  [owner |-> << >>, ownerAddress |-> << >>, buildingValue |-> << >>,
   landValue |-> << >>, otherValue |-> << >>, totalValue |-> << >>,
   assessmentYear |-> << >>, lotSize |-> << >>, lastSalePrice |-> << >>,
   lastSaleDate |-> << >>, useCode |-> << >>, yearBuilt |-> << >>]

\* The first n texts, one after the other (the text of an element is the
\* concatenation of the texts it contains).
RECURSIVE concatFirst(_, _)
concatFirst(texts, n) ==
  IF n = 0 THEN << >> ELSE concatFirst(texts, n - 1) \o texts[n]

concat(texts) == concatFirst(texts, Len(texts))

rowText(page, r) == concat(page.rows[r])
tableText(page) == concat([r \in 1..Len(page.rows) |-> rowText(page, r)])

\* $('table tr, table td') in document order: each row, then its cells.
RECURSIVE elementsFrom(_, _)
elementsFrom(page, r) ==
  IF r > Len(page.rows) THEN << >>
  ELSE <<[kind |-> "tr", row |-> r, col |-> 0]>>
       \o [c \in 1..Len(page.rows[r]) |-> [kind |-> "td", row |-> r, col |-> c]]
       \o elementsFrom(page, r + 1)

\* $(el).text().trim() and $(el).parent().text().trim()
elText(page, el) ==
  IF el.kind = "tr" THEN trim(rowText(page, el.row))
  ELSE trim(page.rows[el.row][el.col])
elParentText(page, el) ==
  IF el.kind = "tr" THEN trim(tableText(page))
  ELSE trim(rowText(page, el.row))

\* $('body').text()
pageText(page) == tableText(page) \o page.outside

\* $(el).nextAll('td, div, span'): the cells after a cell; a row has none.
nextAllTexts(page, el) ==
  IF el.kind = "tr" THEN << >>
  ELSE [i \in 1..(Len(page.rows[el.row]) - el.col) |->
          trim(page.rows[el.row][el.col + i])]

\* Lines 241-249: the texts collected until an empty one or one that
\* mentions the building value stops the loop.
addressLines(texts) ==
  LET stops == {i \in 1..Len(texts) :
                  texts[i] = << >> \/ includes(texts[i], BuildingValueWords)}
  IN  IF stops = {} THEN texts
      ELSE SubSeq(texts, 1, (CHOOSE i \in stops : \A j \in stops : i <= j) - 1)

\* addressLines.join(', ')
RECURSIVE joinFirst(_, _)
joinFirst(lines, n) ==
  IF n = 0 THEN << >>
  ELSE IF n = 1 THEN lines[1]
  ELSE joinFirst(lines, n - 1) \o <<",", " ">> \o lines[n]

join(lines) == joinFirst(lines, Len(lines))

labelled(text, parentText, label) ==
  includes(text, label) \/ includes(parentText, label)

\* The twelve rules of the table scan, applied to one element.
ownerRule(info, text, parentText) ==
  IF labelled(text, parentText, OwnerLabel)
  THEN LET own == trim(removeFirst(text, OwnerLabel))
           ownerText == IF own # << >> THEN own
                        ELSE trim(removeFirst(parentText, OwnerLabel))
       IN  IF ownerText # << >> THEN [info EXCEPT !.owner = ownerText] ELSE info
  ELSE info

ownerAddressRule(info, text, parentText, following) ==
  IF labelled(text, parentText, OwnerAddressLabel)
     /\ Len(addressLines(following)) > 0
  THEN [info EXCEPT !.ownerAddress = join(addressLines(following))]
  ELSE info

\* Variant of wholeMatchRule that does not test the label.
wholeMatchRuleUnlabelled(info, field, label, pattern, text, parentText) ==
  IF match(text, pattern).ok \/ match(parentText, pattern).ok
  THEN LET src == matchSource(text, parentText, pattern)
       IN  [info EXCEPT ![field] = matched(src, match(src, pattern))]
  ELSE info

\* if (label in text or parentText) { match = text.match(p) || parentText.match(p);
\*   if (match) info[field] = match[0] }
wholeMatchRule(info, field, label, pattern, text, parentText) ==
  IF labelled(text, parentText, label)
     /\ (match(text, pattern).ok \/ match(parentText, pattern).ok)
  THEN LET src == matchSource(text, parentText, pattern)
       IN  [info EXCEPT ![field] = matched(src, match(src, pattern))]
  ELSE info

\* The same with match[1] of a pattern "label, white space, (digits)".
groupMatchRule(info, field, label, pattern, text, parentText) ==
  IF labelled(text, parentText, label)
     /\ (match(text, pattern).ok \/ match(parentText, pattern).ok)
  THEN LET src == matchSource(text, parentText, pattern)
       IN  [info EXCEPT ![field] =
              group(src, match(src, pattern), Len(pattern), Len(pattern))]
  ELSE info

assessmentYearRule(info, text) ==
  IF includes(text, AssessmentLabel) \/ includes(text, FiscalYear)
  THEN IF match(text, FiscalYearPattern).ok
       THEN [info EXCEPT !.assessmentYear =
               matched(text, match(text, FiscalYearPattern))]
       ELSE IF match(text, FourDigits).ok
       THEN [info EXCEPT !.assessmentYear = matched(text, match(text, FourDigits))]
       ELSE info
  ELSE info

\* Lines 231-304: the callback of each(), rule after rule.
visit(page, info, el) ==
  LET text == elText(page, el)
      parentText == elParentText(page, el)
      i1 == ownerRule(info, text, parentText)
      i2 == ownerAddressRule(i1, text, parentText, nextAllTexts(page, el))
      i3 == wholeMatchRule(i2, "buildingValue", BuildingValueLabel, MoneyPattern,
                           text, parentText)
      i4 == wholeMatchRule(i3, "landValue", LandValueLabel, MoneyPattern,
                           text, parentText)
      i5 == wholeMatchRule(i4, "otherValue", OtherValueLabel, MoneyPattern,
                           text, parentText)
      i6 == wholeMatchRule(i5, "totalValue", TotalValueLabel, MoneyPattern,
                           text, parentText)
      i7 == assessmentYearRule(i6, text)
      i8 == wholeMatchRule(i7, "lotSize", LotSizeLabel, AcresPattern,
                           text, parentText)
      i9 == wholeMatchRule(i8, "lastSalePrice", LastSalePriceLabel, MoneyPattern,
                           text, parentText)
      i10 == wholeMatchRule(i9, "lastSaleDate", LastSaleDateLabel, EightDigits,
                            text, parentText)
      i11 == groupMatchRule(i10, "useCode", UseCodeLabel, UseCodePattern,
                            text, parentText)
  IN  groupMatchRule(i11, "yearBuilt", YearBuiltLabel, YearBuiltPattern,
                     text, parentText)

\* The record after the first n elements were visited.
RECURSIVE tableScan(_, _, _)
tableScan(page, elements, n) ==
  IF n = 0 THEN EmptyInfo
  ELSE visit(page, tableScan(page, elements, n - 1), elements[n])

\* Variant of yearBuiltFallback that does not test whether the field is set.
yearBuiltFallbackAlways(info, wholeText) ==
  IF match(wholeText, YearBuiltFallback).ok
  THEN [info EXCEPT !.yearBuilt =
          group(wholeText, match(wholeText, YearBuiltFallback),
                Len(YearBuiltFallback), Len(YearBuiltFallback))]
  ELSE info

\* Lines 306-320: the three whole-page fallbacks.
yearBuiltFallback(info, wholeText) ==
  IF info.yearBuilt = << >> /\ match(wholeText, YearBuiltFallback).ok
  THEN [info EXCEPT !.yearBuilt =
          group(wholeText, match(wholeText, YearBuiltFallback),
                Len(YearBuiltFallback), Len(YearBuiltFallback))]
  ELSE info

totalValueFallback(info, wholeText) ==
  IF info.totalValue = << >> /\ match(wholeText, TotalValueFallback).ok
  THEN [info EXCEPT !.totalValue =
          <<"$">> \o group(wholeText, match(wholeText, TotalValueFallback),
                           Len(TotalValueFallback), Len(TotalValueFallback))]
  ELSE info

lotSizeFallback(info, wholeText) ==
  IF info.lotSize = << >> /\ match(wholeText, LotSizeFallback).ok
  THEN [info EXCEPT !.lotSize =
          group(wholeText, match(wholeText, LotSizeFallback),
                Len(LotSizeWords) + 2, Len(LotSizeFallback))]
  ELSE info

propertyInfo(page) ==
  lotSizeFallback(
    totalValueFallback(
      yearBuiltFallback(
        tableScan(page, elementsFrom(page, 1), Len(elementsFrom(page, 1))),
        pageText(page)),
      pageText(page)),
    pageText(page))

\* The response pages of the flow.
HtmlPool ==
  { [rows |-> << >>, outside |-> << >>],
    [rows |-> << <<<<"B","u","i","l","d","i","n","g"," ","V","a","l","u","e",":"," ","$","2","4","5",",","0","0","0">>>> >>, outside |-> << >>],
    [rows |-> << <<<<"O","w","n","e","r",":"," ","J","O"," ","P","U","B","L","I","C">>, <<"T","o","t","a","l"," ","V","a","l","u","e",":"," ","$","3","5","0",",","0","0","0">>>>,
                 <<<<"Y","e","a","r"," ","B","u","i","l","t",":">>, <<" ","1","9","8","5"," ">>>> >>,
     outside |-> <<"L","o","t"," ","S","i","z","e"," ","0",".","2","5"," ","A","c","r","e","s">>],
    \* a page without any label
    [rows |-> <<<<<<"N","o"," ","r","e","c","o","r","d","s"," ","f","o","u","n","d">>>>>>,
     outside |-> <<"T","r","y"," ","a","g","a","i","n">>],
    \* an owner address in the cell of its label
    [rows |-> <<<<<<"O","w","n","e","r"," ","A","d","d","r","e","s","s",":"," ","1"," ","E","L","M">>>>>>,
     outside |-> << >>] }

\* The response pages the extractor is applied to on its own.
ExtractPages ==
  HtmlPool \cup
  {
    \* the same label in two rows
    [rows |-> <<<<<<"Y","e","a","r"," ","B","u","i","l","t",":"," ","1","9","8","5">>>>, <<<<"Y","e","a","r"," ","B","u","i","l","t",":"," ","1","9","9","0">>>>>>,
     outside |-> << >>],
    \* a label and its value outside the table
    [rows |-> << >>,
     outside |-> <<"B","u","i","l","d","i","n","g"," ","V","a","l","u","e",":"," ","$","2","4","5",",","0","0","0">>],
    \* three labelled cells in one row
    [rows |-> <<<<<<"O","w","n","e","r",":"," ","J","O","H","N"," ","Q"," ","P","U","B","L","I","C">>, <<"T","o","t","a","l"," ","V","a","l","u","e",":"," ","$","3","5","0",",","0","0","0">>, <<"Y","e","a","r"," ","B","u","i","l","t",":"," ","1","9","8","5">>>>>>,
     outside |-> << >>],
    \* three labelled cells in three rows
    [rows |-> <<<<<<"O","w","n","e","r",":"," ","J","O","H","N"," ","Q"," ","P","U","B","L","I","C">>>>, <<<<"T","o","t","a","l"," ","V","a","l","u","e",":"," ","$","3","5","0",",","0","0","0">>>>, <<<<"Y","e","a","r"," ","B","u","i","l","t",":"," ","1","9","8","5">>>>>>,
     outside |-> << >>],
    \* a label cell and a value cell
    [rows |-> <<<<<<"L","a","s","t"," ","S","a","l","e"," ","D","a","t","e",":">>, <<"2","0","2","4","0","1","1","5">>>>>>,
     outside |-> << >>],
    \* the assessment line
    [rows |-> <<<<<<"A","s","s","e","s","s","m","e","n","t"," ","d","a","t","a"," ","f","r","o","m"," ","F","Y"," ","2","0","2","4">>>>>>,
     outside |-> << >>],
    \* an owner address in the cell after its label
    [rows |-> <<<<<<"O","w","n","e","r"," ","A","d","d","r","e","s","s",":">>, <<"1"," ","E","L","M"," ","S","T">>>>>>,
     outside |-> << >>],
    \* two amounts in two rows
    [rows |-> <<<<<<"B","u","i","l","d","i","n","g"," ","V","a","l","u","e",":"," ","$","1">>>>, <<<<"L","a","n","d"," ","V","a","l","u","e",":"," ","$","2">>>>>>,
     outside |-> << >>],
    \* two amounts in one row
    [rows |-> <<<<<<"L","a","s","t"," ","S","a","l","e"," ","P","r","i","c","e",":"," ","$","5","0","0",",","0","0","0">>, <<"L","a","n","d"," ","V","a","l","u","e",":"," ","$","1","0","0",",","0","0","0">>>>>>,
     outside |-> << >>],
    \* a total outside the table, in lower case
    [rows |-> << >>,
     outside |-> <<"t","o","t","a","l"," ","v","a","l","u","e",":"," ","3","5","0",",","0","0","0">>],
    \* a lot size in the table and another outside
    [rows |-> <<<<<<"L","o","t"," ","S","i","z","e",":"," ","0",".","2","5"," ","A","c","r","e","s">>>>>>,
     outside |-> <<"L","o","t"," ","S","i","z","e"," ","1",".","5"," ","a","c","r","e","s">>],
    \* a use code
    [rows |-> <<<<<<"U","s","e"," ","C","o","d","e",":"," ","1","0","1">>>>>>,
     outside |-> << >>],
    \* a use code and a year in one row
    [rows |-> <<<<<<"U","s","e"," ","C","o","d","e",":"," ","1","0","1">>, <<"Y","e","a","r"," ","B","u","i","l","t",":"," ","1","9","8","5">>>>>>,
     outside |-> << >>],
    \* a lot size and a sale date in two rows
    [rows |-> <<<<<<"L","o","t"," ","S","i","z","e",":"," ","0",".","2","5"," ","A","c","r","e","s">>>>, <<<<"L","a","s","t"," ","S","a","l","e"," ","D","a","t","e",":"," ","2","0","2","4","0","1","1","5">>>>>>,
     outside |-> << >>],
    \* an amount with its label in the cell before, and an empty cell
    [rows |-> <<<<<<"O","t","h","e","r"," ","V","a","l","u","e",":">>, <<"$","0">>, <<" ">>>>>>,
     outside |-> <<"Y","e","a","r"," ","b","u","i","l","t"," ","1","9","9","0">>] }

\* The record extracted from each response page of the flow.
extracted == [page \in HtmlPool |-> propertyInfo(page)]


\* ------------------------------------------------------------------------
\* Responses and errors
\* ------------------------------------------------------------------------
Err(text, arg) == [text |-> text, arg |-> arg]

\* The messages a rejected browser operation may carry (possibly empty).
RejectionTexts == {"", "Protocol error"}

\* error.message || 'Failed to fetch property information'
errorMessage(error) ==
  IF error.text = ""
  THEN Err("Failed to fetch property information", << >>)
  ELSE error

\* The catch block: res.status(500).json({error, details}); control then
\* reaches the finally block.
Catch(error) ==
  /\ res' = Append(res, [status |-> 500, error |-> errorMessage(error)])
  /\ pc' = "finally"

Logged(entry) == log' = Append(log, entry)

\* An awaited browser operation that takes no input from the page: it
\* resolves, or it rejects and the catch block runs.
BrowserStep(from, op, to) ==
  /\ pc = from
  /\ \/ /\ Logged([op |-> op, ok |-> TRUE])
        /\ pc' = to
        /\ UNCHANGED res
     \/ /\ Logged([op |-> op, ok |-> FALSE])
        /\ \E t \in RejectionTexts : Catch(Err(t, << >>))

\* A wait whose rejection is caught locally (try/catch or .catch(() => {})).
TolerantWait(from, op, to, onTimeout) ==
  /\ pc = from
  /\ \/ /\ Logged([op |-> op, ok |-> TRUE])
        /\ pc' = to
     \/ /\ Logged([op |-> op, ok |-> FALSE])
        /\ pc' = onTimeout
  /\ UNCHANGED res

\* delay(ms): always resolves.
Delay(from, ms, to) ==
  /\ pc = from
  /\ Logged([op |-> "delay", ms |-> ms, ok |-> TRUE])
  /\ pc' = to
  /\ UNCHANGED res

\* page.select(selector, value)
SelectStep(from, role, select, to) ==
  /\ pc = from
  /\ \/ /\ Logged([op |-> "select", role |-> role,
                   selector |-> selectorOf(select), value |-> chosen[role],
                   ok |-> TRUE])
        /\ pc' = to
        /\ UNCHANGED res
     \/ /\ Logged([op |-> "select", role |-> role,
                   selector |-> selectorOf(select), value |-> chosen[role],
                   ok |-> FALSE])
        /\ \E t \in RejectionTexts : Catch(Err(t, << >>))

\* Variant of QueryStep that goes on when the element is absent.
QueryStepAbsentTolerated(from, role, select, notFound, to) ==
  /\ pc = from
  /\ \/ /\ \E found \in BOOLEAN :
             Logged([op |-> "$", role |-> role, found |-> found, ok |-> TRUE])
        /\ pc' = to
        /\ UNCHANGED res
     \/ /\ Logged([op |-> "$", role |-> role, found |-> FALSE, ok |-> FALSE])
        /\ \E t \in RejectionTexts : Catch(Err(t, << >>))

\* const el = await page.$(selector); if (!el) throw new Error(...)
\* page.$ resolves to the element, resolves to null, or rejects.
QueryStep(from, role, select, notFound, to) ==
  /\ pc = from
  /\ \/ /\ Logged([op |-> "$", role |-> role, found |-> TRUE, ok |-> TRUE])
        /\ pc' = to
        /\ UNCHANGED res
     \/ /\ Logged([op |-> "$", role |-> role, found |-> FALSE, ok |-> TRUE])
        /\ Catch(Err(notFound, selectorOf(select)))
     \/ /\ Logged([op |-> "$", role |-> role, found |-> FALSE, ok |-> FALSE])
        /\ \E t \in RejectionTexts : Catch(Err(t, << >>))

pageState ==
  <<selects, citySelect, streetSelect, addressSelect, chosen,
    updatedStreetOptions, updatedAddressOptions, submitButton, html>>
session == <<browser, closeCalls, closeRejected>>

\* ------------------------------------------------------------------------
\* The steps of the handler, one per await
\* ------------------------------------------------------------------------
\* Variant of Validate that does not test addressNumber.
ValidateCityAndStreetOnly ==
  /\ pc = "validate"
  /\ IF ~truthy(body.city) \/ ~truthy(body.streetName)
     THEN /\ res' = Append(res,
               [status |-> 400,
                error |-> Err("City, street name, and address number are required",
                              << >>)])
          /\ pc' = "finally"
     ELSE /\ pc' = "launch"
          /\ UNCHANGED res
  /\ UNCHANGED <<body, session, pageState, log, rvars, mvars, cvars, xvars, qvars>>

\* Lines 29-35: validation, before any browser is launched.
Validate ==
  /\ pc = "validate"
  /\ IF ~truthy(body.city) \/ ~truthy(body.streetName)
        \/ ~truthy(body.addressNumber)
     THEN /\ res' = Append(res,
               [status |-> 400,
                error |-> Err("City, street name, and address number are required",
                              << >>)])
          /\ pc' = "finally"
     ELSE /\ pc' = "launch"
          /\ UNCHANGED res
  /\ UNCHANGED <<body, session, pageState, log, rvars, mvars, cvars, xvars, qvars>>

\* Lines 40-49: browser = await puppeteer.launch(...)
Launch ==
  /\ pc = "launch"
  /\ \/ /\ browser' = "open"
        /\ Logged([op |-> "launch", ok |-> TRUE])
        /\ pc' = "newPage"
        /\ UNCHANGED res
     \/ /\ UNCHANGED browser
        /\ Logged([op |-> "launch", ok |-> FALSE])
        /\ \E t \in RejectionTexts : Catch(Err(t, << >>))
  /\ UNCHANGED <<body, closeCalls, closeRejected, pageState, rvars, mvars, cvars, xvars, qvars>>

NewPage ==
  /\ BrowserStep("newPage", "newPage", "setViewport")
  /\ UNCHANGED <<body, session, pageState, rvars, mvars, cvars, xvars, qvars>>

SetViewport ==
  /\ BrowserStep("setViewport", "setViewport", "setUserAgent")
  /\ UNCHANGED <<body, session, pageState, rvars, mvars, cvars, xvars, qvars>>

SetUserAgent ==
  /\ BrowserStep("setUserAgent", "setUserAgent", "goto")
  /\ UNCHANGED <<body, session, pageState, rvars, mvars, cvars, xvars, qvars>>

\* Variant of Goto that navigates a second time when the first navigation
\* fails.
GotoRetriedOnce ==
  /\ pc = "goto"
  /\ \/ /\ Logged([op |-> "goto", ok |-> TRUE])
        /\ pc' = "waitForSelect"
        /\ UNCHANGED res
     \/ /\ Logged([op |-> "goto", ok |-> FALSE])
        /\ IF \E i \in 1..Len(log) : log[i].op = "goto"
           THEN \E t \in RejectionTexts : Catch(Err(t, << >>))
           ELSE pc' = "goto" /\ UNCHANGED res
  /\ UNCHANGED <<body, session, pageState, rvars, mvars, cvars, xvars, qvars>>

\* Line 57: page.goto(baseUrl, {waitUntil: 'networkidle2', timeout: 30000})
Goto ==
  /\ BrowserStep("goto", "goto", "waitForSelect")
  /\ UNCHANGED <<body, session, pageState, rvars, mvars, cvars, xvars, qvars>>

\* Variant of WaitForSelect without a timeout: when no select ever appears
\* the wait stays pending and the handler never resumes.
WaitForSelectUnbounded ==
  /\ pc = "waitForSelect"
  /\ \/ /\ Logged([op |-> "waitForSelector:select", ok |-> TRUE])
        /\ pc' = "evalSelects"
     \/ /\ pc' = "pending"
        /\ UNCHANGED log
  /\ UNCHANGED <<body, session, pageState, res, rvars, mvars, cvars, xvars, qvars>>

\* Line 60: page.waitForSelector('select', {timeout: 10000})
WaitForSelect ==
  /\ BrowserStep("waitForSelect", "waitForSelector:select", "evalSelects")
  /\ UNCHANGED <<body, session, pageState, rvars, mvars, cvars, xvars, qvars>>

\* Lines 63-122: snapshot the selects, resolve the roles, match the city.
\* Everything after the $$eval is synchronous up to page.select.
EvalSelects ==
  /\ pc = "evalSelects"
  /\ \/ \E dom \in FlowPages :
          LET snap == snapshot(dom)
              roles == resolveRoles(snap)
              value == IF resolutionFails(roles) THEN << >>
                       ELSE cityValue(roles.city.options,
                                      normalizedCity(body.city.s))
          IN  /\ Logged([op |-> "$$eval", ok |-> TRUE])
              /\ selects' = snap
              /\ citySelect' = roles.city
              /\ streetSelect' = roles.street
              /\ addressSelect' = roles.address
              /\ IF resolutionFails(roles)
                 THEN /\ Catch(Err("Could not find all required dropdowns. Found selects: ",
                                   <<Len(snap)>>))
                      /\ UNCHANGED chosen
                 ELSE IF stepOutcome(value) = "select"
                 THEN /\ chosen' = [chosen EXCEPT !.city = value]
                      /\ pc' = "selectCity"
                      /\ UNCHANGED res
                 ELSE /\ Catch(Err("Could not find city option for: ", body.city.s))
                      /\ UNCHANGED chosen
     \/ /\ Logged([op |-> "$$eval", ok |-> FALSE])
        /\ \E t \in RejectionTexts : Catch(Err(t, << >>))
        /\ UNCHANGED <<selects, citySelect, streetSelect, addressSelect, chosen>>
  /\ UNCHANGED <<body, session, updatedStreetOptions, updatedAddressOptions,
                 submitButton, html, rvars, mvars, cvars, xvars, qvars>>

\* Variant of SelectCity whose page.select is not awaited: the flow goes on
\* while the selection is still pending.
SelectCityNotAwaited ==
  /\ pc = "selectCity"
  /\ Logged([op |-> "select", role |-> "city",
             selector |-> selectorOf(citySelect), value |-> chosen.city,
             ok |-> FALSE])
  /\ pc' = "waitStreet"
  /\ UNCHANGED <<body, session, pageState, res, rvars, mvars, cvars, xvars, qvars>>

\* Line 119: await page.select(citySelector, cityValue)
SelectCity ==
  /\ SelectStep("selectCity", "city", citySelect, "waitStreet")
  /\ UNCHANGED <<body, session, pageState, rvars, mvars, cvars, xvars, qvars>>

\* Variant of WaitStreet without the try/catch: the timeout propagates.
WaitStreetFatal ==
  /\ BrowserStep("waitStreet", "waitForFunction:street", "queryStreet")
  /\ UNCHANGED <<body, session, pageState, rvars, mvars, cvars, xvars, qvars>>

\* Lines 127-138: wait for the street options; a timeout is caught.
WaitStreet ==
  /\ TolerantWait("waitStreet", "waitForFunction:street", "queryStreet", "graceStreet")
  /\ UNCHANGED <<body, session, pageState, rvars, mvars, cvars, xvars, qvars>>

GraceStreet ==
  /\ Delay("graceStreet", GraceDelay, "queryStreet")
  /\ UNCHANGED <<body, session, pageState, rvars, mvars, cvars, xvars, qvars>>

\* Lines 140-143
QueryStreet ==
  /\ QueryStep("queryStreet", "street", streetSelect,
               "Street select element not found: ", "evalStreet")
  /\ UNCHANGED <<body, session, pageState, rvars, mvars, cvars, xvars, qvars>>

\* Variant of EvalStreet that matches the street against the options of the
\* snapshot taken at page load.
EvalStreetFromSnapshot ==
  /\ pc = "evalStreet"
  /\ \/ \E live \in FlowOptionLists :
          LET options == readOptions(live)
              value == streetValue(streetSelect.options,
                                   normalizedStreet(body.streetName.s))
          IN  /\ Logged([op |-> "$eval", role |-> "street", ok |-> TRUE])
              /\ updatedStreetOptions' = options
              /\ IF stepOutcome(value) = "select"
                 THEN /\ chosen' = [chosen EXCEPT !.street = value]
                      /\ pc' = "selectStreet"
                      /\ UNCHANGED res
                 ELSE /\ Catch(Err("Could not find street option for: ",
                                   body.streetName.s))
                      /\ UNCHANGED chosen
     \/ /\ Logged([op |-> "$eval", role |-> "street", ok |-> FALSE])
        /\ \E t \in RejectionTexts : Catch(Err(t, << >>))
        /\ UNCHANGED <<updatedStreetOptions, chosen>>
  /\ UNCHANGED <<body, session, selects, citySelect, streetSelect, addressSelect,
                 updatedAddressOptions, submitButton, html, rvars, mvars, cvars, xvars, qvars>>

\* Lines 145-164: re-read the street options and match the street.
EvalStreet ==
  /\ pc = "evalStreet"
  /\ \/ \E live \in FlowOptionLists :
          LET options == readOptions(live)
              value == streetValue(options, normalizedStreet(body.streetName.s))
          IN  /\ Logged([op |-> "$eval", role |-> "street", ok |-> TRUE])
              /\ updatedStreetOptions' = options
              /\ IF stepOutcome(value) = "select"
                 THEN /\ chosen' = [chosen EXCEPT !.street = value]
                      /\ pc' = "selectStreet"
                      /\ UNCHANGED res
                 ELSE /\ Catch(Err("Could not find street option for: ",
                                   body.streetName.s))
                      /\ UNCHANGED chosen
     \/ /\ Logged([op |-> "$eval", role |-> "street", ok |-> FALSE])
        /\ \E t \in RejectionTexts : Catch(Err(t, << >>))
        /\ UNCHANGED <<updatedStreetOptions, chosen>>
  /\ UNCHANGED <<body, session, selects, citySelect, streetSelect, addressSelect,
                 updatedAddressOptions, submitButton, html, rvars, mvars, cvars, xvars, qvars>>

\* Line 161
SelectStreet ==
  /\ SelectStep("selectStreet", "street", streetSelect, "waitAddress")
  /\ UNCHANGED <<body, session, pageState, rvars, mvars, cvars, xvars, qvars>>

\* Lines 169-180
WaitAddress ==
  /\ TolerantWait("waitAddress", "waitForFunction:address", "queryAddress", "graceAddress")
  /\ UNCHANGED <<body, session, pageState, rvars, mvars, cvars, xvars, qvars>>

GraceAddress ==
  /\ Delay("graceAddress", GraceDelay, "queryAddress")
  /\ UNCHANGED <<body, session, pageState, rvars, mvars, cvars, xvars, qvars>>

\* Lines 182-185
QueryAddress ==
  /\ QueryStep("queryAddress", "address", addressSelect,
               "Address select element not found: ", "evalAddress")
  /\ UNCHANGED <<body, session, pageState, rvars, mvars, cvars, xvars, qvars>>

\* Variant of EvalAddress that assigns the requested number itself instead
\* of the value of an option.
EvalAddressAssignsTarget ==
  /\ pc = "evalAddress"
  /\ \/ \E live \in FlowOptionLists :
          LET options == readOptions(live)
              value == normalizedAddress(body.addressNumber.s)
          IN  /\ Logged([op |-> "$eval", role |-> "address", ok |-> TRUE])
              /\ updatedAddressOptions' = options
              /\ IF stepOutcome(value) = "select"
                 THEN /\ chosen' = [chosen EXCEPT !.address = value]
                      /\ pc' = "selectAddress"
                      /\ UNCHANGED res
                 ELSE /\ Catch(Err("Could not find address option for: ",
                                   body.addressNumber.s))
                      /\ UNCHANGED chosen
     \/ /\ Logged([op |-> "$eval", role |-> "address", ok |-> FALSE])
        /\ \E t \in RejectionTexts : Catch(Err(t, << >>))
        /\ UNCHANGED <<updatedAddressOptions, chosen>>
  /\ UNCHANGED <<body, session, selects, citySelect, streetSelect, addressSelect,
                 updatedStreetOptions, submitButton, html, rvars, mvars, cvars, xvars, qvars>>

\* Lines 187-205
EvalAddress ==
  /\ pc = "evalAddress"
  /\ \/ \E live \in FlowOptionLists :
          LET options == readOptions(live)
              value == addressValue(options,
                                    normalizedAddress(body.addressNumber.s))
          IN  /\ Logged([op |-> "$eval", role |-> "address", ok |-> TRUE])
              /\ updatedAddressOptions' = options
              /\ IF stepOutcome(value) = "select"
                 THEN /\ chosen' = [chosen EXCEPT !.address = value]
                      /\ pc' = "selectAddress"
                      /\ UNCHANGED res
                 ELSE /\ Catch(Err("Could not find address option for: ",
                                   body.addressNumber.s))
                      /\ UNCHANGED chosen
     \/ /\ Logged([op |-> "$eval", role |-> "address", ok |-> FALSE])
        /\ \E t \in RejectionTexts : Catch(Err(t, << >>))
        /\ UNCHANGED <<updatedAddressOptions, chosen>>
  /\ UNCHANGED <<body, session, selects, citySelect, streetSelect, addressSelect,
                 updatedStreetOptions, submitButton, html, rvars, mvars, cvars, xvars, qvars>>

\* Line 202
SelectAddress ==
  /\ SelectStep("selectAddress", "address", addressSelect, "settle")
  /\ UNCHANGED <<body, session, pageState, rvars, mvars, cvars, xvars, qvars>>

\* Line 207
Settle ==
  /\ Delay("settle", SettleDelay, "querySubmit")
  /\ UNCHANGED <<body, session, pageState, rvars, mvars, cvars, xvars, qvars>>

\* Line 210: const submitButton = await page.$(...)
QuerySubmit ==
  /\ pc = "querySubmit"
  /\ \/ /\ \E found \in {"present", "null"} :
             /\ submitButton' = found
             /\ pc' = IF found = "present" THEN "click" ELSE "press"
        /\ Logged([op |-> "$", role |-> "submit",
                   found |-> (submitButton' = "present"), ok |-> TRUE])
        /\ UNCHANGED res
     \/ /\ Logged([op |-> "$", role |-> "submit", found |-> FALSE, ok |-> FALSE])
        /\ \E t \in RejectionTexts : Catch(Err(t, << >>))
        /\ UNCHANGED submitButton
  /\ UNCHANGED <<body, session, selects, citySelect, streetSelect, addressSelect,
                 chosen, updatedStreetOptions, updatedAddressOptions, html,
                 rvars, mvars, cvars, xvars, qvars>>

\* Variant of Click that goes on to the Enter keystroke as well.
ClickThenEnter ==
  /\ BrowserStep("click", "click", "press")
  /\ UNCHANGED <<body, session, pageState, rvars, mvars, cvars, xvars, qvars>>

\* Line 213
Click ==
  /\ BrowserStep("click", "click", "resultsDelay")
  /\ UNCHANGED <<body, session, pageState, rvars, mvars, cvars, xvars, qvars>>

\* Line 215
PressEnter ==
  /\ BrowserStep("press", "press", "resultsDelay")
  /\ UNCHANGED <<body, session, pageState, rvars, mvars, cvars, xvars, qvars>>

\* Line 219
ResultsSettle ==
  /\ Delay("resultsDelay", ResultsDelay, "waitResults")
  /\ UNCHANGED <<body, session, pageState, rvars, mvars, cvars, xvars, qvars>>

\* Line 220: waitForSelector(...).catch(() => {})
WaitResults ==
  /\ TolerantWait("waitResults", "waitForSelector:results", "content", "content")
  /\ UNCHANGED <<body, session, pageState, rvars, mvars, cvars, xvars, qvars>>

\* Variant of Content in which a page that yields no field is an error.
ContentRequiresField ==
  /\ pc = "content"
  /\ \/ \E page \in HtmlPool :
          /\ Logged([op |-> "content", ok |-> TRUE])
          /\ html' = page
          /\ IF extracted[page] = EmptyInfo
             THEN Catch(Err("No property data found", << >>))
             ELSE /\ res' = Append(res, [status |-> 200, success |-> TRUE,
                                         data |-> extracted[page]])
                  /\ pc' = "finally"
     \/ /\ Logged([op |-> "content", ok |-> FALSE])
        /\ \E t \in RejectionTexts : Catch(Err(t, << >>))
        /\ UNCHANGED html
  /\ UNCHANGED <<body, session, selects, citySelect, streetSelect, addressSelect,
                 chosen, updatedStreetOptions, updatedAddressOptions,
                 submitButton, rvars, mvars, cvars, xvars, qvars>>

\* Variant of Content that closes the browser before it answers, so that
\* the finally block has nothing left to do.
ContentClosesFirst ==
  /\ pc = "content"
  /\ \/ \E page \in HtmlPool :
          /\ log' = log \o <<[op |-> "content", ok |-> TRUE],
                             [op |-> "close", ok |-> TRUE]>>
          /\ html' = page
          /\ closeCalls' = closeCalls + 1
          /\ browser' = "closed"
          /\ res' = Append(res, [status |-> 200, success |-> TRUE,
                                 data |-> extracted[page]])
          /\ pc' = "done"
     \/ /\ Logged([op |-> "content", ok |-> FALSE])
        /\ \E t \in RejectionTexts : Catch(Err(t, << >>))
        /\ UNCHANGED <<html, closeCalls, browser>>
  /\ UNCHANGED <<body, closeRejected, selects, citySelect, streetSelect,
                 addressSelect, chosen, updatedStreetOptions,
                 updatedAddressOptions, submitButton, rvars, mvars, cvars, xvars, qvars>>

\* Lines 223-322: read the page, extract the record, answer 200.
Content ==
  /\ pc = "content"
  /\ \/ \E page \in HtmlPool :
          /\ Logged([op |-> "content", ok |-> TRUE])
          /\ html' = page
          /\ res' = Append(res, [status |-> 200, success |-> TRUE,
                                 data |-> extracted[page]])
          /\ pc' = "finally"
     \/ /\ Logged([op |-> "content", ok |-> FALSE])
        /\ \E t \in RejectionTexts : Catch(Err(t, << >>))
        /\ UNCHANGED html
  /\ UNCHANGED <<body, session, selects, citySelect, streetSelect, addressSelect,
                 chosen, updatedStreetOptions, updatedAddressOptions,
                 submitButton, rvars, mvars, cvars, xvars, qvars>>

\* Variant of Finally that closes the browser on the success path only.
FinallyOnSuccessOnly ==
  /\ pc = "finally"
  /\ IF browser # "null" /\ res[Len(res)].status = 200
     THEN /\ closeCalls' = closeCalls + 1
          /\ browser' = "closed"
          /\ closeRejected' = FALSE
          /\ Logged([op |-> "close", ok |-> TRUE])
     ELSE UNCHANGED <<session, log>>
  /\ pc' = "done"
  /\ UNCHANGED <<body, pageState, res, rvars, mvars, cvars, xvars, qvars>>

\* Variant of Finally in which a rejected close is not swallowed: its error
\* replaces the response.
FinallyCloseErrorSurfaces ==
  /\ pc = "finally"
  /\ IF browser # "null"
     THEN /\ closeCalls' = closeCalls + 1
          /\ \/ /\ browser' = "closed"
                /\ closeRejected' = FALSE
                /\ Logged([op |-> "close", ok |-> TRUE])
                /\ UNCHANGED res
             \/ /\ browser' \in {"open", "closed"}
                /\ closeRejected' = TRUE
                /\ Logged([op |-> "close", ok |-> FALSE])
                /\ res' = <<[status |-> 500,
                             error |-> Err("Protocol error", << >>)]>>
     ELSE UNCHANGED <<session, log, res>>
  /\ pc' = "done"
  /\ UNCHANGED <<body, pageState, rvars, mvars, cvars, xvars, qvars>>

\* Lines 329-334: if (browser) await browser.close().catch(() => {})
\* A rejected close is swallowed; the browser process may or may not be gone.
Finally ==
  /\ pc = "finally"
  /\ IF browser # "null"
     THEN /\ closeCalls' = closeCalls + 1
          /\ \/ /\ browser' = "closed"
                /\ closeRejected' = FALSE
                /\ Logged([op |-> "close", ok |-> TRUE])
             \/ /\ browser' \in {"open", "closed"}
                /\ closeRejected' = TRUE
                /\ Logged([op |-> "close", ok |-> FALSE])
     ELSE UNCHANGED <<session, log>>
  /\ pc' = "done"
  /\ UNCHANGED <<body, pageState, res, rvars, mvars, cvars, xvars, qvars>>

Next ==
  \/ Validate \/ Launch \/ NewPage \/ SetViewport \/ SetUserAgent
  \/ Goto \/ WaitForSelect \/ EvalSelects
  \/ SelectCity \/ WaitStreet \/ GraceStreet \/ QueryStreet \/ EvalStreet
  \/ SelectStreet \/ WaitAddress \/ GraceAddress \/ QueryAddress \/ EvalAddress
  \/ SelectAddress \/ Settle \/ QuerySubmit \/ Click \/ PressEnter
  \/ ResultsSettle \/ WaitResults \/ Content \/ Finally

Spec == Init /\ [][Next]_vars

\* The handler when every awaited operation settles: each await resolves,
\* rejects or times out (goto 30000 ms, waitForSelector 10000 and 15000 ms,
\* waitForFunction 15000 ms, delay 1000 and 3000 ms), so the handler always
\* takes its next step.
SpecSettling == Spec /\ WF_vars(Next)

\* ------------------------------------------------------------------------
\* Role resolution on its own: every page of up to MaxSelects controls
\* ------------------------------------------------------------------------
ResolveControls ==
  { [id |-> <<"d","d","l","C","i","t","y">>, name |-> << >>, options |-> << >>],
    [id |-> << >>, name |-> <<"T","o","w","n">>, options |-> << >>],
    [id |-> <<"S","t","r","e","e","t">>, name |-> << >>, options |-> << >>],
    [id |-> << >>, name |-> <<"n","u","m","b","e","r">>, options |-> << >>],
    [id |-> <<"A","d","d","r","e","s","s">>, name |-> << >>, options |-> << >>],
    [id |-> <<"R","e","g","i","o","n">>, name |-> << >>, options |-> << >>],
    [id |-> <<"l","s","t">>, name |-> <<"l","s","t">>, options |-> << >>],
    [id |-> <<"C","i","t","y","S","t","r","e","e","t">>, name |-> << >>,
     options |-> << >>] }

ResolvePages == SeqsUpTo(ResolveControls, MaxSelects)

IdleBody == [city |-> Absent, streetName |-> Absent, addressNumber |-> Absent]

InitResolve ==
  /\ HandlerIdle(IdleBody)
  /\ MatcherIdle
  /\ ConcurrentIdle
  /\ ExtractorIdle
  /\ QuoteIdle
  /\ \E dom \in ResolvePages : rSelects = snapshot(dom)
  /\ rRoles = NoRoles
  /\ rPhase = "start"

\* Lines 81-92
RKeywords ==
  /\ rPhase = "start"
  /\ rRoles' = keywordPass(rSelects, Len(rSelects))
  /\ rPhase' = "keywords"
  /\ UNCHANGED <<rSelects, hvars, mvars, cvars, xvars, qvars>>

\* Lines 95-101
RFallback ==
  /\ rPhase = "keywords"
  /\ rRoles' = positionalFallback(rRoles, rSelects)
  /\ rPhase' = IF resolutionFails(positionalFallback(rRoles, rSelects))
               THEN "throw" ELSE "resolved"
  /\ UNCHANGED <<rSelects, hvars, mvars, cvars, xvars, qvars>>

NextResolve == RKeywords \/ RFallback

SpecResolve == InitResolve /\ [][NextResolve]_vars

\* ------------------------------------------------------------------------
\* Option matching on its own: every list of up to MaxOptions options
\* ------------------------------------------------------------------------
MatchOptions ==
  { Opt(<< >>, << >>),
    Placeholder,
    Opt(<<"1">>, <<"A","B">>),
    Opt(<<"2">>, <<"A","B","C">>),
    Opt(<<"3">>, <<"A">>),
    Opt(<<"a","b">>, <<"X","Y">>),
    Opt(<<"4">>, <<"X","Y">>),
    Opt(<<"5">>, <<" ","a","b">>),
    Opt(<<"x","a","b","y">>, <<"Q">>),
    Opt(<<" ","7"," ">>, <<"7">>) }

MatchTargets ==
  { <<"a","b">>, <<" ","A","b"," ">>, <<"7">>, <<"z">> }

InitMatch ==
  /\ HandlerIdle(IdleBody)
  /\ ResolverIdle
  /\ ConcurrentIdle
  /\ ExtractorIdle
  /\ QuoteIdle
  /\ \E live \in SeqsUpTo(MatchOptions, MaxOptions) : mOptions = readOptions(live)
  /\ mTarget \in MatchTargets
  /\ mStep = "start"
  /\ mValue = << >>
  /\ mOutcome = "none"

\* Lines 104, 110-122
MCity ==
  /\ mStep = "start"
  /\ mValue' = cityValue(mOptions, normalizedCity(mTarget))
  /\ mOutcome' = stepOutcome(cityValue(mOptions, normalizedCity(mTarget)))
  /\ mStep' = "city"
  /\ UNCHANGED <<mOptions, mTarget, hvars, rvars, cvars, xvars, qvars>>

\* Lines 105, 153-164
MStreet ==
  /\ mStep = "start"
  /\ mValue' = streetValue(mOptions, normalizedStreet(mTarget))
  /\ mOutcome' = stepOutcome(streetValue(mOptions, normalizedStreet(mTarget)))
  /\ mStep' = "street"
  /\ UNCHANGED <<mOptions, mTarget, hvars, rvars, cvars, xvars, qvars>>

\* Lines 106, 195-205
MAddress ==
  /\ mStep = "start"
  /\ mValue' = addressValue(mOptions, normalizedAddress(mTarget))
  /\ mOutcome' = stepOutcome(addressValue(mOptions, normalizedAddress(mTarget)))
  /\ mStep' = "address"
  /\ UNCHANGED <<mOptions, mTarget, hvars, rvars, cvars, xvars, qvars>>

NextMatch == MCity \/ MStreet \/ MAddress

SpecMatch == InitMatch /\ [][NextMatch]_vars

\* ------------------------------------------------------------------------
\* Concurrent requests: the handler runs once per request and the runs
\* interleave at their awaits.  `browser` (line 26) and `page` (line 51)
\* are locals of one run; the module holds no other mutable state.
\* ------------------------------------------------------------------------
\* The awaits on the page, in order, grouped by what they do.
PageStages == <<"setup", "drive", "submit", "content">>

NewBrowser(r) ==
  [launchedBy |-> r, open |-> TRUE, closeCalls |-> 0,
   closedBy |-> {}, usedBy |-> {}]

InitConcurrent ==
  /\ HandlerIdle(IdleBody)
  /\ ResolverIdle
  /\ MatcherIdle
  /\ ExtractorIdle
  /\ QuoteIdle
  /\ cReq = [r \in Requests |-> IdleRequest("validate")]
  /\ cBrowsers = << >>

\* The catch block of run r (500), or its 400: both go on to finally.
CFail(r, status) ==
  cReq' = [cReq EXCEPT ![r].pc = "finally", ![r].status = status]

\* Lines 29-35
CValidate(r) ==
  /\ cReq[r].pc = "validate"
  /\ \/ cReq' = [cReq EXCEPT ![r].pc = "launch"]
     \/ CFail(r, 400)
  /\ UNCHANGED <<cBrowsers, hvars, rvars, mvars, xvars, qvars>>

\* Lines 40-49: browser = await puppeteer.launch(...), a new browser.
CLaunch(r) ==
  /\ cReq[r].pc = "launch"
  /\ \/ /\ cBrowsers' = Append(cBrowsers, NewBrowser(r))
        /\ cReq' = [cReq EXCEPT ![r].pc = "newPage",
                                ![r].browser = Len(cBrowsers) + 1]
     \/ /\ CFail(r, 500)
        /\ UNCHANGED cBrowsers
  /\ UNCHANGED <<hvars, rvars, mvars, xvars, qvars>>

\* Line 51: const page = await browser.newPage()
CNewPage(r) ==
  /\ cReq[r].pc = "newPage"
  /\ \/ cReq' = [cReq EXCEPT ![r].pc = PageStages[1],
                             ![r].page = cReq[r].browser]
     \/ CFail(r, 500)
  /\ UNCHANGED <<cBrowsers, hvars, rvars, mvars, xvars, qvars>>

\* Lines 54-223: an awaited operation on `page`; the last one is followed
\* by the 200 response (line 322).
CPageStep(r) ==
  /\ \E k \in 1..Len(PageStages) :
       /\ cReq[r].pc = PageStages[k]
       /\ cBrowsers' = [cBrowsers EXCEPT ![cReq[r].page].usedBy = @ \cup {r}]
       /\ \/ IF k < Len(PageStages)
             THEN cReq' = [cReq EXCEPT ![r].pc = PageStages[k + 1]]
             ELSE cReq' = [cReq EXCEPT ![r].pc = "finally", ![r].status = 200]
          \/ CFail(r, 500)
  /\ UNCHANGED <<hvars, rvars, mvars, xvars, qvars>>

\* Variant of CFinally for a `browser` variable shared by all runs: it
\* holds the browser launched last.
CFinallySharedBrowser(r) ==
  /\ cReq[r].pc = "finally"
  /\ IF cBrowsers # << >>
     THEN cBrowsers' = [cBrowsers EXCEPT
                          ![Len(cBrowsers)].open = FALSE,
                          ![Len(cBrowsers)].closeCalls = @ + 1,
                          ![Len(cBrowsers)].closedBy = @ \cup {r}]
     ELSE UNCHANGED cBrowsers
  /\ cReq' = [cReq EXCEPT ![r].pc = "done"]
  /\ UNCHANGED <<hvars, rvars, mvars, xvars, qvars>>

\* Lines 329-334: if (browser) await browser.close().catch(() => {})
CFinally(r) ==
  /\ cReq[r].pc = "finally"
  /\ IF cReq[r].browser # 0
     THEN cBrowsers' = [cBrowsers EXCEPT
                          ![cReq[r].browser].open = FALSE,
                          ![cReq[r].browser].closeCalls = @ + 1,
                          ![cReq[r].browser].closedBy = @ \cup {r}]
     ELSE UNCHANGED cBrowsers
  /\ cReq' = [cReq EXCEPT ![r].pc = "done"]
  /\ UNCHANGED <<hvars, rvars, mvars, xvars, qvars>>

NextConcurrent ==
  \E r \in Requests :
    \/ CValidate(r) \/ CLaunch(r) \/ CNewPage(r) \/ CPageStep(r) \/ CFinally(r)

SpecConcurrent == InitConcurrent /\ [][NextConcurrent]_vars

\* ------------------------------------------------------------------------
\* Result extraction on its own (lines 227-320): the table scan, element
\* by element, then the three fallbacks
\* ------------------------------------------------------------------------
InitExtract ==
  /\ HandlerIdle(IdleBody)
  /\ ResolverIdle
  /\ MatcherIdle
  /\ ConcurrentIdle
  /\ QuoteIdle
  /\ xPage \in ExtractPages
  /\ xInfo = EmptyInfo
  /\ xScanned = EmptyInfo
  /\ xStep = 0
  /\ xPhase = "scan"

\* Lines 231-304: one call of the each() callback.
XVisit ==
  /\ xPhase = "scan"
  /\ xStep < Len(elementsFrom(xPage, 1))
  /\ xInfo' = visit(xPage, xInfo, elementsFrom(xPage, 1)[xStep + 1])
  /\ xStep' = xStep + 1
  /\ UNCHANGED <<xPage, xScanned, xPhase, hvars, rvars, mvars, cvars, qvars>>

\* Lines 307-310, reached when the scan is over.
XYearBuiltFallback ==
  /\ xPhase = "scan"
  /\ xStep = Len(elementsFrom(xPage, 1))
  /\ xScanned' = xInfo
  /\ xInfo' = yearBuiltFallback(xInfo, pageText(xPage))
  /\ xPhase' = "totalValue"
  /\ UNCHANGED <<xPage, xStep, hvars, rvars, mvars, cvars, qvars>>

\* Lines 312-315
XTotalValueFallback ==
  /\ xPhase = "totalValue"
  /\ xInfo' = totalValueFallback(xInfo, pageText(xPage))
  /\ xPhase' = "lotSize"
  /\ UNCHANGED <<xPage, xScanned, xStep, hvars, rvars, mvars, cvars, qvars>>

\* Lines 317-320
XLotSizeFallback ==
  /\ xPhase = "lotSize"
  /\ xInfo' = lotSizeFallback(xInfo, pageText(xPage))
  /\ xPhase' = "done"
  /\ UNCHANGED <<xPage, xScanned, xStep, hvars, rvars, mvars, cvars, qvars>>

NextExtract ==
  XVisit \/ XYearBuiltFallback \/ XTotalValueFallback \/ XLotSizeFallback

SpecExtract == InitExtract /\ [][NextExtract]_vars

\* ------------------------------------------------------------------------
\* The handler of POST /submit (quote.ts, lines 212-435): validation, the
\* two emails started together, Promise.allSettled, the answer.
\* ------------------------------------------------------------------------
QuoteBodies ==
  [firstName : BodyFields({<<"x">>}),
   lastName : BodyFields({<<"x">>}),
   email : BodyFields({<<"x">>}),
   phone : BodyFields({<<"x">>})]

\* How resend.emails.send settles: the promise rejects, or it fulfils with
\* {data, error} where error is set, or it fulfils with error null.
SendOutcomes == {"rejected", "error", "sent"}

\* The index of each email in emailPromises (lines 309 and 375).
AdminEmail == 1
CustomerEmail == 2

\* Line 217
missingRequired(quoteData) ==
  \/ ~truthy(quoteData.firstName) \/ ~truthy(quoteData.lastName)
  \/ ~truthy(quoteData.email) \/ ~truthy(quoteData.phone)

fulfilled(results) ==
  {k \in 1..Len(results) : results[k] \in {"error", "sent"}}

\* Lines 388-420: a rejected send is logged (console.error) and nothing
\* else; only the error of a fulfilled send throws.
quoteAnswer(results) ==
  LET errors == {k \in fulfilled(results) : results[k] = "error"}
  IN  IF errors # {}
      THEN [status |-> 500, success |-> FALSE, error |-> "Resend errors: "]
      ELSE [status |-> 200, success |-> TRUE,
            successCount |-> Cardinality(fulfilled(results)),
            emailsSent |->
              [admin |-> AdminEmail \in fulfilled(results),
               customer |-> CustomerEmail \in fulfilled(results)]]

InitQuote ==
  /\ HandlerIdle(IdleBody)
  /\ ResolverIdle
  /\ MatcherIdle
  /\ ConcurrentIdle
  /\ ExtractorIdle
  /\ qPc = "submit"
  /\ qBody \in QuoteBodies
  /\ qConfigured \in BOOLEAN
  /\ qSends = NoSends
  /\ qRes = << >>

\* Lines 213-383: validation, then both sends are started when the email
\* service is configured; else the answer of line 423.
QSubmit ==
  /\ qPc = "submit"
  /\ IF missingRequired(qBody)
     THEN /\ qRes' = Append(qRes,
               [status |-> 400, success |-> FALSE,
                error |-> "Missing required fields: firstName, lastName, email, phone"])
          /\ qPc' = "done"
          /\ UNCHANGED qSends
     ELSE IF ~qConfigured
     THEN /\ qRes' = Append(qRes,
               [status |-> 500, success |-> FALSE,
                message |-> "Email service not configured. Please set RESEND_API_KEY in environment variables."])
          /\ qPc' = "done"
          /\ UNCHANGED qSends
     ELSE /\ qSends' = <<"pending", "pending">>
          /\ qPc' = "allSettled"
          /\ UNCHANGED qRes
  /\ UNCHANGED <<qBody, qConfigured, hvars, rvars, mvars, cvars, xvars>>

\* One of the two sends settles; they run concurrently, in either order.
QSettle(k) ==
  /\ qPc = "allSettled"
  /\ qSends[k] = "pending"
  /\ \E outcome \in SendOutcomes : qSends' = [qSends EXCEPT ![k] = outcome]
  /\ UNCHANGED <<qPc, qBody, qConfigured, qRes, hvars, rvars, mvars, cvars, xvars>>

\* Lines 385-419: the continuation of await Promise.allSettled.
QAnswer ==
  /\ qPc = "allSettled"
  /\ \A k \in 1..Len(qSends) : qSends[k] # "pending"
  /\ qRes' = Append(qRes, quoteAnswer(qSends))
  /\ qPc' = "done"
  /\ UNCHANGED <<qBody, qConfigured, qSends, hvars, rvars, mvars, cvars, xvars>>

NextQuote ==
  \/ QSubmit
  \/ \E k \in {AdminEmail, CustomerEmail} : QSettle(k)
  \/ QAnswer

SpecQuote == InitQuote /\ [][NextQuote]_vars

\* ------------------------------------------------------------------------
\* Properties of the handler (Spec)
\* ------------------------------------------------------------------------
launched == \E i \in 1..Len(log) : log[i].op = "launch" /\ log[i].ok

selectTried(role) ==
  \E i \in 1..Len(log) : log[i].op = "select" /\ log[i].role = role

selectDone(role) ==
  \E i \in 1..Len(log) :
    log[i].op = "select" /\ log[i].role = role /\ log[i].ok

selectDoneBefore(role, i) ==
  \E j \in 1..(i - 1) :
    log[j].op = "select" /\ log[j].role = role /\ log[j].ok

submitted == \E i \in 1..Len(log) : log[i].op \in {"click", "press"}

failedWith(text) ==
  Len(res) = 1 /\ res[1].status = 500 /\ res[1].error.text = text

\* C1: the street selection is attempted only after the region selection
\* has completed, and the address-number selection only after the street
\* selection has completed.
C1_RegionStreetAddressOrder ==
  /\ \A i \in 1..Len(log) :
       log[i].op = "select" =>
         /\ log[i].role = "street" => selectDoneBefore("city", i)
         /\ log[i].role = "address" => selectDoneBefore("street", i)
  /\ pc = "selectStreet" => selectDone("city")
  /\ pc = "selectAddress" => selectDone("street")

C1_Witness ==
  /\ selectDone("city") /\ selectDone("street") /\ selectDone("address")
  /\ citySelect.index # streetSelect.index
  /\ streetSelect.index # addressSelect.index

\* C2: a launched browser is closed exactly once by the time the handler
\* finishes, whichever later stage failed or none; close is never invoked
\* twice, and never without a launched browser.
C2_BrowserClosedExactlyOnce ==
  /\ closeCalls <= 1
  /\ ~launched => closeCalls = 0
  /\ (pc = "done" /\ launched) =>
       /\ closeCalls = 1
       /\ ~closeRejected => browser = "closed"

C2_Witness ==
  /\ pc = "done" /\ launched
  /\ submitted
  /\ \E i \in 1..Len(log) : log[i].op = "content" /\ ~log[i].ok
  /\ failedWith("Failed to fetch property information")
  /\ closeCalls = 1 /\ browser = "closed"

\* C3: a body that lacks city, streetName or addressNumber is answered 400
\* with an error message, and no browser operation (launch, navigation or
\* any other) is performed in that request.
C3_MissingFieldIs400 ==
  (~truthy(body.city) \/ ~truthy(body.streetName) \/ ~truthy(body.addressNumber)) =>
    /\ log = << >>
    /\ browser = "null"
    /\ pc # "validate" =>
         /\ Len(res) = 1 /\ res[1].status = 400
         /\ res[1].error.text # ""

C3_Witness ==
  /\ pc = "done"
  /\ truthy(body.city) /\ truthy(body.streetName)
  /\ body.addressNumber = Absent
  /\ res[1].status = 400

emptyValued(options) == \A k \in 1..Len(options) : options[k].value = << >>

evalDone(op, role) ==
  \E i \in 1..Len(log) :
    /\ log[i].op = op /\ log[i].ok
    /\ op = "$eval" => log[i].role = role

\* C6: when every option of the control read at a step has an empty value,
\* the request fails with 500 and a message that names the role, and
\* neither that selection, nor a later one, nor a submission is performed.
C6_EmptyOptionSetFails ==
  /\ ( /\ evalDone("$$eval", "")
       /\ ~resolutionFails([city |-> citySelect, street |-> streetSelect,
                            address |-> addressSelect])
       /\ emptyValued(citySelect.options) ) =>
       /\ failedWith("Could not find city option for: ")
       /\ ~selectTried("city") /\ ~selectTried("street") /\ ~selectTried("address")
       /\ ~submitted
  /\ (evalDone("$eval", "street") /\ emptyValued(updatedStreetOptions)) =>
       /\ failedWith("Could not find street option for: ")
       /\ ~selectTried("street") /\ ~selectTried("address")
       /\ ~submitted
  /\ (evalDone("$eval", "address") /\ emptyValued(updatedAddressOptions)) =>
       /\ failedWith("Could not find address option for: ")
       /\ ~selectTried("address")
       /\ ~submitted

C6_Witness ==
  /\ pc = "done"
  /\ evalDone("$eval", "address")
  /\ Len(updatedAddressOptions) > 0 /\ emptyValued(updatedAddressOptions)
  /\ selectDone("street")
  /\ failedWith("Could not find address option for: ")

\* C8: a page with fewer than three select controls makes the request fail
\* with 500, and no value is assigned to any control.
C8_FewerThanThreeFails ==
  (evalDone("$$eval", "") /\ Len(selects) < 3) =>
    /\ Len(res) = 1 /\ res[1].status = 500
    /\ ~selectTried("city") /\ ~selectTried("street") /\ ~selectTried("address")

tolerantWaits ==
  {"waitForFunction:street", "waitForFunction:address", "waitForSelector:results"}

timedOut(op) == \E i \in 1..Len(log) : log[i].op = op /\ ~log[i].ok

\* C10: a timeout of the street wait, of the address-number wait or of the
\* results wait never fails the request: the flow goes on with the grace
\* delay (nothing for the results wait) and then with the next step.
C10_TimeoutsAreNotFatal ==
  \A i \in 1..Len(log) :
    (log[i].op \in tolerantWaits /\ ~log[i].ok) =>
      /\ i = Len(log) =>
           /\ res = << >>
           /\ pc = CASE log[i].op = "waitForFunction:street" -> "graceStreet"
                     [] log[i].op = "waitForFunction:address" -> "graceAddress"
                     [] log[i].op = "waitForSelector:results" -> "content"
      /\ i < Len(log) =>
           IF log[i].op = "waitForSelector:results"
           THEN log[i + 1].op = "content"
           ELSE log[i + 1] = [op |-> "delay", ms |-> GraceDelay, ok |-> TRUE]
      /\ (i + 1 < Len(log) /\ log[i].op # "waitForSelector:results") =>
           /\ log[i + 2].op = "$"
           /\ log[i + 2].role =
                (IF log[i].op = "waitForFunction:street" THEN "street" ELSE "address")

C10_Witness ==
  /\ pc = "done"
  /\ Len(res) = 1 /\ res[1].status = 200
  /\ \A op \in tolerantWaits : timedOut(op)

\* The awaited operations whose failure the handler does not catch locally
\* on the way to the form: the page load and the wait for the first select.
fatalWaits == {"goto", "waitForSelector:select"}

\* The entry i of the log is a fatal event of claim C11.
fatalAt(i) ==
  \/ log[i].op \in fatalWaits /\ ~log[i].ok
  \/ /\ log[i].op = "$" /\ log[i].role \in {"street", "address"}
     /\ log[i].ok /\ ~log[i].found

\* C11: a timeout of the page load or of the wait for the first select, or
\* a street or address-number control that is absent when its step queries
\* it, ends the request with a single HTTP 500, and nothing but the close
\* of the browser is performed after that point.
C11_FatalWaitsAndAbsentControls ==
  \A i \in 1..Len(log) :
    fatalAt(i) =>
      /\ Len(res) = 1 /\ res[1].status = 500
      /\ pc \in {"finally", "done"}
      /\ \A j \in (i + 1)..Len(log) : log[j].op = "close"
      /\ log[i].op = "$" =>
           res[1].error.text =
             (IF log[i].role = "street"
              THEN "Street select element not found: "
              ELSE "Address select element not found: ")

C11_Witness ==
  /\ pc = "done"
  /\ \E i \in 1..Len(log) :
       fatalAt(i) /\ log[i].op = "$" /\ log[i].role = "address"
  /\ selectDone("street") /\ ~selectTried("address") /\ ~submitted
  /\ failedWith("Address select element not found: ")


\* The fields of the record, the labels the table scan looks for, and the
\* label words of the three whole-page fallbacks (matched without case).
Fields == DOMAIN EmptyInfo

ScanLabels ==
  [owner |-> {OwnerLabel}, ownerAddress |-> {OwnerAddressLabel},
   buildingValue |-> {BuildingValueLabel}, landValue |-> {LandValueLabel},
   otherValue |-> {OtherValueLabel}, totalValue |-> {TotalValueLabel},
   assessmentYear |-> {AssessmentLabel, FiscalYear},
   lotSize |-> {LotSizeLabel}, lastSalePrice |-> {LastSalePriceLabel},
   lastSaleDate |-> {LastSaleDateLabel}, useCode |-> {UseCodeLabel},
   yearBuilt |-> {YearBuiltLabel}]

FallbackWords ==
  [yearBuilt |-> YearBuiltWords, totalValue |-> TotalValueWords,
   lotSize |-> LotSizeWords]

\* The label of field f occurs somewhere in the text of the page.
labelOnPage(page, f) ==
  \/ \E l \in ScanLabels[f] : includes(pageText(page), l)
  \/ /\ f \in DOMAIN FallbackWords
     /\ includes(toLowerCase(pageText(page)), toLowerCase(FallbackWords[f]))

labelledFields(page) == {f \in Fields : labelOnPage(page, f)}

\* The labelled fields of each response page.
pageLabels == [page \in ExtractPages |-> labelledFields(page)]

fieldsSet(info) == {f \in Fields : info[f] # << >>}

contentRead == \E i \in 1..Len(log) : log[i].op = "content" /\ log[i].ok

\* C12: once the form was submitted and the content of the response page
\* was retrieved, the request ends with HTTP 200 and success true whatever
\* the page holds; a page without any of the twelve labels gives a record
\* with no field set.
C12_ExtractionIsBestEffort ==
  contentRead =>
    /\ submitted
    /\ html \in HtmlPool
    /\ Len(res) = 1 /\ res[1].status = 200 /\ res[1].success
    /\ res[1].data = extracted[html]
    /\ pageLabels[html] = {} => res[1].data = EmptyInfo

C12_Witness ==
  /\ pc = "done" /\ contentRead
  /\ pageText(html) # << >>
  /\ pageLabels[html] = {}
  /\ res[1].status = 200 /\ res[1].data = EmptyInfo

\* The value shape that the rule of a field reads next to its label.
Shapes ==
  [buildingValue |-> MoneyPattern, landValue |-> MoneyPattern,
   otherValue |-> MoneyPattern, totalValue |-> MoneyPattern,
   assessmentYear |-> FourDigits, lotSize |-> AcresPattern,
   lastSalePrice |-> MoneyPattern, lastSaleDate |-> EightDigits,
   useCode |-> UseCodePattern, yearBuilt |-> YearBuiltPattern]

\* The text that follows the first occurrence of a label.
valueAfter(s, label) ==
  LET at == CHOOSE i \in 0..(Len(s) - Len(label)) :
              /\ SubSeq(s, i + 1, i + Len(label)) = label
              /\ \A j \in 0..(i - 1) : SubSeq(s, j + 1, j + Len(label)) # label
  IN  trim(SubSeq(s, at + Len(label) + 1, Len(s)))

\* The page holds the label of field f followed by some text.
labelWithValue(page, f) ==
  \E l \in ScanLabels[f] :
    includes(pageText(page), l) /\ valueAfter(pageText(page), l) # << >>

\* A table cell holds the label of field f together with a value of the
\* field's shape (for ownerAddress: a non-empty cell follows the label's).
valueInCell(page, f) ==
  \E r \in 1..Len(page.rows) : \E c \in 1..Len(page.rows[r]) :
    LET text == trim(page.rows[r][c])
    IN  /\ \E l \in ScanLabels[f] : includes(text, l)
        /\ CASE f = "owner" -> trim(removeFirst(text, OwnerLabel)) # << >>
             [] f = "ownerAddress" ->
                  /\ c < Len(page.rows[r])
                  /\ trim(page.rows[r][c + 1]) # << >>
                  /\ ~includes(page.rows[r][c + 1], BuildingValueWords)
             [] OTHER -> match(text, Shapes[f]).ok

\* The two notions above for each response page.
statedValues == [page \in ExtractPages |-> {f \in Fields : labelWithValue(page, f)}]
cellValues == [page \in ExtractPages |-> {f \in Fields : valueInCell(page, f)}]

\* C14 (as the code has it): a field of the returned record is set only if
\* its label occurs in the text of the page (for yearBuilt, totalValue and
\* lotSize the label words in any letter case, with or without the colon);
\* a page with the label of exactly one field gives a record with no other
\* field, and with that field when the label stands in a table cell
\* together with a value of the field's shape; the response is HTTP 200.
C14_OnlyLabelledFields ==
  contentRead =>
    /\ res[1].status = 200
    /\ fieldsSet(res[1].data) \subseteq pageLabels[html]
    /\ \A f \in Fields :
         (pageLabels[html] = {f} /\ f \in cellValues[html]) =>
           fieldsSet(res[1].data) = {f}

\* C14 (as stated): a field is set only if its label occurs on the page,
\* and a page that contains exactly one of the twelve labels with a value
\* gives a record with exactly that field.
C14_ExactlyTheLabelledField ==
  contentRead =>
    /\ res[1].status = 200
    /\ fieldsSet(res[1].data) \subseteq pageLabels[html]
    /\ \A f \in Fields :
         (pageLabels[html] = {f} /\ f \in statedValues[html]) =>
           fieldsSet(res[1].data) = {f}

C14_Witness ==
  /\ pc = "done" /\ contentRead
  /\ pageLabels[html] = {"buildingValue"}
  /\ "buildingValue" \in cellValues[html]
  /\ res[1].status = 200
  /\ res[1].data = [EmptyInfo EXCEPT !.buildingValue =
                      <<"$","2","4","5",",","0","0","0">>]

\* The first table cell that holds the label of field f, and the value
\* that stands with the label in that cell.
labelCells(page, f) ==
  {rc \in (1..Len(page.rows)) \X (1..3) :
     /\ rc[2] <= Len(page.rows[rc[1]])
     /\ \E l \in ScanLabels[f] : includes(page.rows[rc[1]][rc[2]], l)}

ownValue(page, f) ==
  LET rc == CHOOSE x \in labelCells(page, f) :
              \A y \in labelCells(page, f) :
                x[1] < y[1] \/ (x[1] = y[1] /\ x[2] <= y[2])
      text == trim(page.rows[rc[1]][rc[2]])
  IN  CASE f = "owner" -> trim(removeFirst(text, OwnerLabel))
        [] f = "ownerAddress" -> trim(page.rows[rc[1]][rc[2] + 1])
        [] f \in {"useCode", "yearBuilt"} ->
             group(text, match(text, Shapes[f]), Len(Shapes[f]), Len(Shapes[f]))
        [] OTHER -> matched(text, match(text, Shapes[f]))

\* The record in which each field holds the value that follows its own label.
ownValues ==
  [page \in ExtractPages |->
     [f \in Fields |->
        IF f \in cellValues[page] THEN ownValue(page, f) ELSE << >>]]

submissions == {i \in 1..Len(log) : log[i].op \in {"click", "press"}}

\* C18: the form is submitted at most once, after the address-number
\* selection was assigned, by a click when a submit control was found and
\* by an Enter keystroke otherwise, never both; the response page is read
\* only after the submission.
C18_SubmitOnceThenRead ==
  /\ Cardinality(submissions) <= 1
  /\ \A i \in submissions :
       /\ selectDoneBefore("address", i)
       /\ log[i - 1].op = "$" /\ log[i - 1].role = "submit" /\ log[i - 1].ok
       /\ log[i].op = "click" <=> log[i - 1].found
       /\ log[i].op = "click" <=> submitButton = "present"
  /\ \A j \in 1..Len(log) :
       log[j].op = "content" =>
         \E i \in submissions : i < j /\ log[i].ok

C18_Witness ==
  /\ pc = "done" /\ contentRead
  /\ submitButton = "null"
  /\ \E i \in submissions : log[i].op = "press" /\ log[i].ok
  /\ res[1].status = 200

\* The wait for the options of a role has ended (either way) before entry i.
waitEndedBefore(role, i) ==
  \E j \in 1..(i - 1) :
    log[j].op = (IF role = "street" THEN "waitForFunction:street"
                 ELSE "waitForFunction:address")

\* The option lists a read of a dependent select can return, and the street
\* names and address numbers that pass validation.
readLists == {readOptions(live) : live \in FlowOptionLists}
streetNames ==
  {b.streetName.s : b \in {x \in FlowBodies : truthy(x.streetName)}}
addressNumbers ==
  {b.addressNumber.s : b \in {x \in FlowBodies : truthy(x.addressNumber)}}

\* The value each step chooses (lines 153-158 and 195-199), tabulated over
\* the lists a read can return.
streetChoice ==
  [options \in readLists |->
     [name \in streetNames |-> streetValue(options, normalizedStreet(name))]]
addressChoice ==
  [options \in readLists |->
     [number \in addressNumbers |->
        addressValue(options, normalizedAddress(number))]]

\* C19: the options the street is matched against are read after the
\* region selection was assigned and the repopulation wait ended, those of
\* the address number after the street selection was assigned; the value
\* each step chooses is the match in the options read then, not in the
\* snapshot taken at page load.
C19_OptionsReadAfterSelection ==
  /\ \A i \in 1..Len(log) :
       log[i].op = "$eval" =>
         IF log[i].role = "street"
         THEN selectDoneBefore("city", i) /\ waitEndedBefore("street", i)
         ELSE selectDoneBefore("street", i) /\ waitEndedBefore("address", i)
  /\ evalDone("$eval", "street") =>
       LET value == streetChoice[updatedStreetOptions][body.streetName.s]
       IN  IF stepOutcome(value) = "select"
           THEN chosen.street = value
           ELSE failedWith("Could not find street option for: ")
  /\ evalDone("$eval", "address") =>
       LET value == addressChoice[updatedAddressOptions][body.addressNumber.s]
       IN  IF stepOutcome(value) = "select"
           THEN chosen.address = value
           ELSE failedWith("Could not find address option for: ")

\* Both dependent selects showed other options at page load than when
\* their step read them, and the snapshot would have given other values.
C19_Witness ==
  /\ pc = "done" /\ res[1].status = 200
  /\ streetSelect.options # updatedStreetOptions
  /\ addressSelect.options # updatedAddressOptions
  /\ streetValue(streetSelect.options, normalizedStreet(body.streetName.s))
       # chosen.street
  /\ addressValue(addressSelect.options, normalizedAddress(body.addressNumber.s))
       # chosen.address

\* C20: a rejected browser.close() is swallowed: the finally block leaves
\* the response as it was sent (status and body are those of the same
\* request with a close that succeeds), the original error stays the one
\* reported, and the handler ends normally with exactly one response.
C20_CloseFailureIsSwallowed ==
  /\ [][pc = "finally" => (res' = res /\ pc' = "done")]_vars
  /\ [](pc = "done" => Len(res) = 1)

C20_Witness ==
  /\ pc = "done"
  /\ closeRejected
  /\ failedWith("Could not find street option for: ")

\* The attempts of the steps that claim C21 names.
launches == {i \in 1..Len(log) : log[i].op = "launch"}
navigations == {i \in 1..Len(log) : log[i].op = "goto"}
selections(role) ==
  {i \in 1..Len(log) : log[i].op = "select" /\ log[i].role = role}

\* The entry i of the log is an operation that rejected and whose rejection
\* the handler does not catch locally.
stepFailed(i) ==
  /\ ~log[i].ok
  /\ log[i].op \notin tolerantWaits
  /\ log[i].op # "close"

\* C21: no step is retried: the launch, the navigation, each of the three
\* selections and the submission are attempted at most once; after a step
\* that fails only the close of the browser follows, and the failure is
\* answered with one HTTP 500 that carries an error message; once a
\* response was sent the only browser operation still performed is the
\* close.
C21_NoStepIsRetried ==
  /\ [](/\ Cardinality(launches) <= 1
        /\ Cardinality(navigations) <= 1
        /\ \A role \in {"city", "street", "address"} :
             Cardinality(selections(role)) <= 1
        /\ Cardinality(submissions) <= 1
        /\ \A i \in 1..Len(log) :
             stepFailed(i) =>
               /\ \A j \in (i + 1)..Len(log) : log[j].op = "close"
               /\ Len(res) = 1 /\ res[1].status = 500
               /\ res[1].error.text # ""
               /\ pc \in {"finally", "done"})
  /\ [][res # << >> =>
          /\ res' = res
          /\ \A j \in (Len(log) + 1)..Len(log') : log'[j].op = "close"]_vars

\* A street selection that rejected after a tolerated timeout: one attempt
\* of each earlier step, no later step, a 500 with the default message.
C21_Witness ==
  /\ pc = "done"
  /\ timedOut("waitForFunction:street")
  /\ \E i \in selections("street") : stepFailed(i)
  /\ Cardinality(launches) = 1 /\ Cardinality(navigations) = 1
  /\ Cardinality(selections("city")) = 1
  /\ selections("address") = {} /\ submissions = {}
  /\ log[Len(log)].op = "close"
  /\ failedWith("Failed to fetch property information")

\* The statuses the handler answers with (lines 32, 322 and 325).
Statuses == {400, 200, 500}

\* C22: when every awaited browser operation settles, the request always
\* ends up with exactly one response, of status 400, 200 or 500; at no
\* time have two responses been sent, and the handler does not finish
\* without one.
C22_ExactlyOneResponseEventually ==
  /\ <>[](Len(res) = 1 /\ res[1].status \in Statuses)
  /\ [](Len(res) <= 1)
  /\ [](pc = "done" => Len(res) = 1)

\* A request answered 200 although the street wait and the results wait
\* both ran into their timeout and the grace delay was taken.
C22_Witness ==
  /\ pc = "done"
  /\ Len(res) = 1 /\ res[1].status = 200
  /\ timedOut("waitForSelector:results")
  /\ \E i \in 1..(Len(log) - 1) :
       /\ log[i].op = "waitForFunction:street" /\ ~log[i].ok
       /\ log[i + 1].op = "delay" /\ log[i + 1].ms = GraceDelay
  /\ log[Len(log)].op = "close"

\* C23 as stated: in a request that launched a browser, the close of the
\* browser has been invoked by the time a response is sent.
C23_CloseBeforeResponse ==
  (launched /\ res # << >>) => closeCalls >= 1

\* C23: in a request that launched a browser the response is sent first,
\* from the try or the catch block, while the browser is still open; the
\* close is invoked afterwards in the finally block, exactly once, and
\* leaves the response as it was sent.
C23_ResponseThenClose ==
  /\ [][closeCalls' # closeCalls => (Len(res) = 1 /\ res' = res)]_vars
  /\ []((launched /\ pc = "finally") =>
          (Len(res) = 1 /\ closeCalls = 0 /\ browser = "open"))
  /\ []((launched /\ pc = "done") => (Len(res) = 1 /\ closeCalls = 1))

\* The record has been sent and the browser is still open.
C23_Witness ==
  /\ pc = "finally"
  /\ launched /\ contentRead
  /\ Len(res) = 1 /\ res[1].status = 200
  /\ browser = "open" /\ closeCalls = 0

\* The option set read for a role at its step: the snapshot for the region
\* (lines 63-73), the re-read lists for the street and the address number.
optionsRead(role) ==
  IF role = "city" THEN citySelect.options
  ELSE IF role = "street" THEN updatedStreetOptions
  ELSE updatedAddressOptions

offered(options, value) ==
  \E k \in 1..Len(options) : options[k].value = value

\* C25: every value passed to page.select is non-empty and is the value of
\* an option of the option set read for that control at that step.
C25_AssignedValueWasOffered ==
  \A i \in 1..Len(log) :
    log[i].op = "select" =>
      /\ log[i].value # << >>
      /\ log[i].value = chosen[log[i].role]
      /\ offered(optionsRead(log[i].role), log[i].value)

\* All three values were assigned: the street by the fallback, no rule
\* having matched, the address number by a rule, behind a placeholder of
\* empty value.
C25_Witness ==
  /\ pc = "done" /\ res[1].status = 200
  /\ selectDone("city") /\ selectDone("street") /\ selectDone("address")
  /\ streetOption(updatedStreetOptions,
                  normalizedStreet(body.streetName.s)) = Undefined
  /\ offered(updatedStreetOptions, chosen.street)
  /\ Len(updatedAddressOptions) = 2
  /\ updatedAddressOptions[1].value = << >>
  /\ addressOption(updatedAddressOptions,
                   normalizedAddress(body.addressNumber.s))
       = updatedAddressOptions[2]
  /\ chosen.address = updatedAddressOptions[2].value
\* ------------------------------------------------------------------------
\* Properties of the option matching (SpecMatch)
\* ------------------------------------------------------------------------
\* The rule of the Option Matcher that an option satisfies first: 1 label
\* equality, 2 value equality, 3 label contains target, 4 target contains
\* label, 5 none (comparisons on upper-cased text).
ruleRank(opt, target) ==
  IF toUpperCase(opt.text) = target THEN 1
  ELSE IF toUpperCase(opt.value) = target THEN 2
  ELSE IF includes(toUpperCase(opt.text), target) THEN 3
  ELSE IF includes(target, toUpperCase(opt.text)) THEN 4
  ELSE 5

bestRank(options, target) ==
  IF options = << >> THEN 5
  ELSE CHOOSE r \in 1..5 :
         /\ \E k \in 1..Len(options) : ruleRank(options[k], target) = r
         /\ \A k \in 1..Len(options) : ruleRank(options[k], target) >= r

\* C4: in the region step the selected option is one of best rule priority:
\* label equality beats value equality beats label-contains beats
\* label-contained, wherever the options stand in the list.
C4_RulePriorityNotPosition ==
  mStep = "city" =>
    LET target == normalizedCity(mTarget)
        best == bestRank(mOptions, target)
    IN  best < 5 =>
          \E k \in 1..Len(mOptions) :
            /\ ruleRank(mOptions[k], target) = best
            /\ mValue = mOptions[k].value

noMatch(step, options, target) ==
  \A k \in 1..Len(options) :
    CASE step = "city" -> ~cityMatches(options[k], normalizedCity(target))
      [] step = "street" -> ~streetMatches(options[k], normalizedStreet(target))
      [] step = "address" -> ~addressMatches(options[k], normalizedAddress(target))

\* C5: in each of the three steps, when no option matches the target by
\* any rule of the step, the step selects the value of the first option in
\* list order whose value is non-empty (and selects nothing, never the
\* empty string, when there is none).
C5_FallbackFirstNonEmpty ==
  (mStep \in {"city", "street", "address"} /\ noMatch(mStep, mOptions, mTarget)) =>
    IF \E k \in 1..Len(mOptions) : mOptions[k].value # << >>
    THEN /\ mOutcome = "select"
         /\ mValue # << >>
         /\ \E k \in 1..Len(mOptions) :
              /\ mOptions[k].value = mValue
              /\ \A j \in 1..(k - 1) : mOptions[j].value = << >>
    ELSE mOutcome = "throw"

C5_Witness ==
  /\ mStep = "street"
  /\ noMatch(mStep, mOptions, mTarget)
  /\ Len(mOptions) >= 2
  /\ mOptions[1].value = << >>
  /\ mOutcome = "select"
  /\ mValue = mOptions[2].value

\* The values that rules 1 to 4 of the Option Matcher can give (the value
\* of any option that satisfies one of them), else the value of rule 5.
matcherValues(options, target) ==
  IF bestRank(options, target) < 5
  THEN {options[k].value :
          k \in {j \in 1..Len(options) : ruleRank(options[j], target) < 5}}
  ELSE {firstNonEmptyValue(options)}

\* v is the value of the first option whose index is in hits, or the first
\* non-empty value when there is no hit.
firstHitOrFallback(options, hits, v) ==
  IF hits = {}
  THEN \/ /\ \A k \in 1..Len(options) : options[k].value = << >>
          /\ v = << >>
       \/ \E k \in 1..Len(options) :
            /\ options[k].value # << >> /\ v = options[k].value
            /\ \A j \in 1..(k - 1) : options[j].value = << >>
  ELSE \E k \in hits : (\A j \in hits : k <= j) /\ v = options[k].value

\* C17 (as the code has it): the street step takes the first option whose
\* upper-cased label contains the target, whose upper-cased value contains
\* the target, or whose upper-cased label is contained in the target
\* (target upper-cased and trimmed); the address-number step takes the
\* first option whose trimmed label or trimmed value equals the trimmed
\* target, letter case included; each falls back to the first non-empty
\* value when no option qualifies.
C17_EachStepItsOwnRules ==
  /\ mStep = "street" =>
       LET t == trim(toUpperCase(mTarget))
       IN  firstHitOrFallback(mOptions,
             {k \in 1..Len(mOptions) :
                \/ includes(toUpperCase(mOptions[k].text), t)
                \/ includes(toUpperCase(mOptions[k].value), t)
                \/ includes(t, toUpperCase(mOptions[k].text))},
             mValue)
  /\ mStep = "address" =>
       firstHitOrFallback(mOptions,
         {k \in 1..Len(mOptions) :
            \/ trim(mOptions[k].text) = trim(mTarget)
            \/ trim(mOptions[k].value) = trim(mTarget)},
         mValue)

\* C17 (as stated): the street step and the address-number step return a
\* value that rules 1 to 5 of the Option Matcher give, all comparisons
\* without regard to letter case.
C17_SameMatcherEveryStep ==
  mStep \in {"street", "address"} =>
    mValue \in matcherValues(mOptions, trim(toUpperCase(mTarget)))

\* The street step picks an option that only its own rule (value contains
\* target) accepts, where the rules of the region step pick another value.
C17_Witness ==
  /\ mStep = "street"
  /\ Len(mOptions) >= 2
  /\ ruleRank(mOptions[1], normalizedStreet(mTarget)) = 5
  /\ includes(toUpperCase(mOptions[1].value), normalizedStreet(mTarget))
  /\ mValue = mOptions[1].value
  /\ cityValue(mOptions, normalizedCity(mTarget)) # mValue

\* C24: a step fails for want of an option only when every option of its
\* control has an empty value; when some option has a non-empty value the
\* step selects a non-empty value, whatever the target.
C24_FailsOnlyWhenAllEmpty ==
  (mStep \in {"city", "street", "address"} /\ ~emptyValued(mOptions)) =>
    (mOutcome = "select" /\ mValue # << >>)

\* ------------------------------------------------------------------------
\* Properties of the role resolution (SpecResolve)
\* ------------------------------------------------------------------------
\* C7: whenever resolution succeeds, the three roles are held by three
\* pairwise distinct controls.
C7_RolesPairwiseDistinct ==
  rPhase = "resolved" =>
    /\ rRoles.city.index # rRoles.street.index
    /\ rRoles.city.index # rRoles.address.index
    /\ rRoles.street.index # rRoles.address.index

RegionKeywords == {<<"r","e","g","i","o","n">>, <<"c","i","t","y">>, <<"t","o","w","n">>}
CityKeywords == {<<"c","i","t","y">>, <<"t","o","w","n">>}
StreetKeywords == {<<"s","t","r","e","e","t">>}
AddressKeywords == {<<"a","d","d","r","e","s","s">>, <<"n","u","m","b","e","r">>}

containsKeyword(select, keywords) ==
  \E kw \in keywords :
    includes(toLowerCase(select.id), kw) \/ includes(toLowerCase(select.name), kw)

\* The first control, in page order, that is not yet claimed and carries a
\* keyword of the role; 0 when there is none.
firstUnclaimed(pageSelects, keywords, claimed) ==
  firstIndex({k \in 1..Len(pageSelects) :
                k \notin claimed /\ containsKeyword(pageSelects[k], keywords)})

byKeywordOrPosition(pageSelects, k, position) ==
  IF k # 0 THEN pageSelects[k]
  ELSE IF Len(pageSelects) >= position THEN pageSelects[position]
  ELSE Null

\* Role by role: keyword first, position otherwise.
rolesByRule(pageSelects, regionKeywords) ==
  LET c == firstUnclaimed(pageSelects, regionKeywords, {})
      st == firstUnclaimed(pageSelects, StreetKeywords, {c})
      a == firstUnclaimed(pageSelects, AddressKeywords, {c, st})
  IN  [city |-> byKeywordOrPosition(pageSelects, c, 1),
       street |-> byKeywordOrPosition(pageSelects, st, 2),
       address |-> byKeywordOrPosition(pageSelects, a, 3)]

\* C9 as amended: each role goes to the first not-yet-claimed control whose
\* lower-cased id or name contains a keyword of the role, the keywords of
\* the region role being city and town; a role left without such a control
\* goes to the control at its position (first, second, third) if the page
\* has one there.
C9_KeywordThenPosition ==
  rPhase \in {"resolved", "throw"} => rRoles = rolesByRule(rSelects, CityKeywords)

\* C9 as stated: the same with region among the keywords of the region role.
C9_RegionIsAKeyword ==
  rPhase \in {"resolved", "throw"} => rRoles = rolesByRule(rSelects, RegionKeywords)

C9_Witness ==
  /\ rPhase = "resolved"
  /\ rRoles.city.index = 2 /\ hasCityKeyword(rRoles.city)
  /\ hasStreetKeyword(rRoles.city)
  /\ rRoles.street.index = 1 /\ ~hasStreetKeyword(rRoles.street)
  /\ rRoles.address.index = 0 /\ hasAddressKeyword(rRoles.address)

\* ------------------------------------------------------------------------
\* Properties of concurrent requests (SpecConcurrent)
\* ------------------------------------------------------------------------
browsersOf(r) == {b \in 1..Len(cBrowsers) : cBrowsers[b].launchedBy = r}

\* C16: with requests interleaving at their awaits, each request launches
\* at most one browser, acts only on the page of its own browser and
\* closes only its own browser; a browser stays open until the request
\* that launched it reaches its own finally block.
C16_SessionsArePrivate ==
  /\ \A r \in Requests :
       /\ Cardinality(browsersOf(r)) <= 1
       /\ cReq[r].browser # 0 => browsersOf(r) = {cReq[r].browser}
       /\ cReq[r].page # 0 => cReq[r].page = cReq[r].browser
  /\ \A b \in 1..Len(cBrowsers) :
       /\ cBrowsers[b].usedBy \subseteq {cBrowsers[b].launchedBy}
       /\ cBrowsers[b].closedBy \subseteq {cBrowsers[b].launchedBy}
       /\ cBrowsers[b].closeCalls <= 1
       /\ cReq[cBrowsers[b].launchedBy].pc # "done" => cBrowsers[b].open

\* One request failed and is done, its browser closed, while another is
\* in the middle of its flow on its own open browser.
C16_Witness ==
  \E r, q \in Requests :
    /\ r # q
    /\ cReq[r].pc = "done" /\ cReq[r].status = 500 /\ cReq[r].browser # 0
    /\ ~cBrowsers[cReq[r].browser].open
    /\ cReq[q].pc = "submit" /\ cReq[q].browser > cReq[r].browser
    /\ cBrowsers[cReq[q].browser].open
    /\ cBrowsers[cReq[q].browser].usedBy = {q}

\* ------------------------------------------------------------------------
\* Properties of the result extraction (SpecExtract)
\* ------------------------------------------------------------------------
fallbacksStarted == xPhase \in {"totalValue", "lotSize", "done"}

\* C13: a field that the table scan populated keeps its value through the
\* whole-page fallbacks; the fallbacks write yearBuilt, totalValue and
\* lotSize only when still unset, and never any of the other nine fields.
C13_FallbackNeverOverwrites ==
  fallbacksStarted =>
    /\ \A f \in Fields : xScanned[f] # << >> => xInfo[f] = xScanned[f]
    /\ \A f \in Fields \ DOMAIN FallbackWords : xInfo[f] = xScanned[f]

\* The table scan set yearBuilt and the whole-page pattern finds another
\* year first.
C13_Witness ==
  /\ xPhase = "done"
  /\ xScanned.yearBuilt # << >>
  /\ match(pageText(xPage), YearBuiltFallback).ok
  /\ group(pageText(xPage), match(pageText(xPage), YearBuiltFallback),
           Len(YearBuiltFallback), Len(YearBuiltFallback))
       # xScanned.yearBuilt
  /\ xInfo.yearBuilt = xScanned.yearBuilt

\* A results table with several labelled cells, each with its value.
severalLabelledCells(page) ==
  /\ Cardinality(cellValues[page]) >= 2
  /\ pageLabels[page] = cellValues[page]

\* C15: when the results table holds several labelled cells, in one row or
\* in separate rows, every field of the returned record holds the value
\* that follows its own label, and no other field is set.
C15_EachFieldItsOwnValue ==
  (xPhase = "done" /\ severalLabelledCells(xPage)) =>
    xInfo = ownValues[xPage]

\* ------------------------------------------------------------------------
\* Properties of the quote handler (SpecQuote)
\* ------------------------------------------------------------------------
\* C26: POST /submit answers success true only when both the admin email
\* and the customer email were sent without a rejection and without a
\* reported error; when either send is rejected or reports an error the
\* answer is HTTP 500 with success false; a request that misses firstName,
\* lastName, email or phone is answered 400 and no email is sent.
C26_SuccessOnlyWhenBothSent ==
  qPc = "done" =>
    /\ Len(qRes) = 1
    /\ qRes[1].success => qSends = <<"sent", "sent">>
    /\ (\E k \in 1..Len(qSends) : qSends[k] \in {"rejected", "error"}) =>
         (qRes[1].status = 500 /\ ~qRes[1].success)
    /\ missingRequired(qBody) => (qRes[1].status = 400 /\ qSends = NoSends)

====
